---- MODULE Spec2Model ----
(***************************************************************************)
(* Model of validate.js of burgan-tech/morph-touch: the path-to-line       *)
(* resolver (findErrorLineNumber, findLineNumberForPath and their helpers),*)
(* the diagnostic formatter and the validation run (syntax pass, schema    *)
(* pass, exit code).                                                       *)
(*                                                                         *)
(* Strings of the program are sequences of one-character strings, so that  *)
(* the character loops and the regular expressions of the source are       *)
(* computed and not assumed.  A resolver result is a 1-based line number,  *)
(* null (0) or, inside a function body, Throw (-1) for a raised exception. *)
(***************************************************************************)
EXTENDS Integers, Sequences, FiniteSets, TLC

\* ------------------------------------------------------------------ bounds
MaxLines == 2
MaxFiles == 2

\* --------------------------------------------------------------- characters
DQ == "\""
BS == "\\"
NL == "\n"
SP == " "

null == 0
Throw == 0 - 1

Digits == {"0", "1", "2", "3", "4", "5", "6", "7", "8", "9"}

WordChars ==
  Digits \cup {"_"} \cup
  {"a", "b", "c", "d", "e", "f", "g", "h", "i", "j", "k", "l", "m", "n", "o",
   "p", "q", "r", "s", "t", "u", "v", "w", "x", "y", "z"} \cup
  {"A", "B", "C", "D", "E", "F", "G", "H", "I", "J", "K", "L", "M", "N", "O",
   "P", "Q", "R", "S", "T", "U", "V", "W", "X", "Y", "Z"}

Whitespace == {SP, "\t", "\r", NL}

Max(a, b) == IF a > b THEN a ELSE b

DigitVal(c) ==
  CASE c = "0" -> 0 [] c = "1" -> 1 [] c = "2" -> 2 [] c = "3" -> 3
    [] c = "4" -> 4 [] c = "5" -> 5 [] c = "6" -> 6 [] c = "7" -> 7
    [] c = "8" -> 8 [] c = "9" -> 9

DigitChar(d) ==
  CASE d = 0 -> "0" [] d = 1 -> "1" [] d = 2 -> "2" [] d = 3 -> "3"
    [] d = 4 -> "4" [] d = 5 -> "5" [] d = 6 -> "6" [] d = 7 -> "7"
    [] d = 8 -> "8" [] d = 9 -> "9"

RECURSIVE parseInt(_)
parseInt(s) ==
  IF s = <<>> THEN 0
  ELSE parseInt(SubSeq(s, 1, Len(s) - 1)) * 10 + DigitVal(s[Len(s)])

RECURSIVE NumberToString(_)
NumberToString(n) ==
  IF n < 10 THEN <<DigitChar(n)>>
  ELSE NumberToString(n \div 10) \o <<DigitChar(n % 10)>>

\* /^\d+$/.test(part)
IsIndex(part) == part # <<>> /\ \A i \in 1..Len(part) : part[i] \in Digits

\* str.split(sep) for a one-character separator
RECURSIVE Split(_, _)
Split(s, sep) ==
  IF \E i \in 1..Len(s) : s[i] = sep
  THEN LET i == CHOOSE j \in 1..Len(s) :
                  s[j] = sep /\ \A k \in 1..(j - 1) : s[k] # sep
       IN <<SubSeq(s, 1, i - 1)>> \o Split(SubSeq(s, i + 1, Len(s)), sep)
  ELSE <<s>>

NonEmpty(part) == Len(part) > 0

\* jsonPath.split('/').filter(part => part.length > 0)
SplitPath(p) == SelectSeq(Split(p, "/"), NonEmpty)

\* line.includes(needle)
Includes(line, needle) ==
  \E i \in 1..(Len(line) - Len(needle) + 1) :
    SubSeq(line, i, i + Len(needle) - 1) = needle

\* `"${name}"`
Quoted(name) == <<DQ>> \o name \o <<DQ>>

\* line.match(new RegExp(`"${escaped name}"\\s*:`)): the name is escaped, so
\* it is matched literally; then optional whitespace; then a colon.
MatchesKeyColon(line, name) ==
  LET q == Quoted(name) IN
  \E i \in 1..(Len(line) - Len(q) + 1) :
    /\ SubSeq(line, i, i + Len(q) - 1) = q
    /\ \E j \in (i + Len(q))..Len(line) :
         /\ line[j] = ":"
         /\ \A k \in (i + Len(q))..(j - 1) : line[k] \in Whitespace

\* line.trim().startsWith('{')
TrimStartsWithBrace(line) ==
  \E i \in 1..Len(line) :
    line[i] = "{" /\ \A k \in 1..(i - 1) : line[k] \in Whitespace

\* first (0-based) index of lines satisfying a test, as the for loops that
\* return lineNum + 1 on the first hit; null when no line does
FirstLine(lines, Test(_)) ==
  IF \E i \in 1..Len(lines) : Test(lines[i])
  THEN CHOOSE i \in 1..Len(lines) :
         Test(lines[i]) /\ \A k \in 1..(i - 1) : ~Test(lines[k])
  ELSE null

\* ------------------------------------------------------------ JSON.parse
\* The standard parser the source calls (JSON.parse), over the characters of
\* the text.  A parsed value keeps its structure, for a scalar its text s (for a
\* string the characters it denotes) and, besides, the line on which
\* its first token stands and, for an object member, the line of its key: the
\* program never sees these lines, the properties about the resolver do.
NoNode == [t |-> "none", line |-> 0, members |-> <<>>, elems |-> <<>>, s |-> <<>>]

LineOf(txt, p) == 1 + Cardinality({q \in 1..(p - 1) : txt[q] = NL})

RECURSIVE SkipWs(_, _)
SkipWs(txt, p) ==
  IF p <= Len(txt) /\ txt[p] \in Whitespace THEN SkipWs(txt, p + 1) ELSE p

RECURSIVE ParseStringBody(_, _, _)
ParseStringBody(txt, p, acc) ==
  IF p > Len(txt) THEN [ok |-> FALSE, pos |-> p, s |-> acc]
  ELSE IF txt[p] = DQ THEN [ok |-> TRUE, pos |-> p + 1, s |-> acc]
  ELSE IF txt[p] = BS
    THEN IF p + 1 <= Len(txt) /\ txt[p + 1] \in {DQ, BS, "/"}
         THEN ParseStringBody(txt, p + 2, Append(acc, txt[p + 1]))
         ELSE IF p + 1 <= Len(txt) /\ txt[p + 1] = "n"
         THEN ParseStringBody(txt, p + 2, Append(acc, NL))
         ELSE [ok |-> FALSE, pos |-> p, s |-> acc]
  ELSE IF txt[p] \in {NL, "\t", "\r"}
    THEN [ok |-> FALSE, pos |-> p, s |-> acc]
  ELSE ParseStringBody(txt, p + 1, Append(acc, txt[p]))

RECURSIVE SkipDigits(_, _)
SkipDigits(txt, p) ==
  IF p <= Len(txt) /\ txt[p] \in Digits THEN SkipDigits(txt, p + 1) ELSE p

IsWordAt(txt, p, w) ==
  p + Len(w) - 1 <= Len(txt) /\ SubSeq(txt, p, p + Len(w) - 1) = w

ParseFail == [ok |-> FALSE, pos |-> 0, node |-> NoNode]

\* a scalar read from p up to q; s is its text (for a string, see ParseValue)
Scalar(kind, txt, p, q) ==
  [ok |-> TRUE, pos |-> q,
   node |-> [t |-> kind, line |-> LineOf(txt, p), members |-> <<>>, elems |-> <<>>,
             s |-> SubSeq(txt, p, q - 1)]]

RECURSIVE ParseValue(_, _)
RECURSIVE ParseMembers(_, _, _, _)
RECURSIVE ParseElems(_, _, _, _)

\* p stands on the first character of a member (or on the closing brace of
\* an empty object when acc is empty); open is the position of the '{'
ParseMembers(txt, p, acc, open) ==
  IF p > Len(txt) THEN ParseFail
  ELSE IF txt[p] = "}" /\ acc = <<>>
    THEN [ok |-> TRUE, pos |-> p + 1,
          node |-> [t |-> "object", line |-> LineOf(txt, open),
                    members |-> acc, elems |-> <<>>, s |-> <<>>]]
  ELSE IF txt[p] # DQ THEN ParseFail
  ELSE
    LET k == ParseStringBody(txt, p + 1, <<>>)
        c == SkipWs(txt, k.pos)
    IN IF ~k.ok \/ c > Len(txt) \/ txt[c] # ":" THEN ParseFail
       ELSE
         LET v == ParseValue(txt, c + 1)
             e == SkipWs(txt, v.pos)
             m == [key |-> k.s, keyLine |-> LineOf(txt, p), val |-> v.node]
         IN IF ~v.ok \/ e > Len(txt) THEN ParseFail
            ELSE IF txt[e] = ","
              THEN LET n == SkipWs(txt, e + 1)
                   IN IF n <= Len(txt) /\ txt[n] = DQ
                      THEN ParseMembers(txt, n, Append(acc, m), open)
                      ELSE ParseFail
            ELSE IF txt[e] = "}"
              THEN [ok |-> TRUE, pos |-> e + 1,
                    node |-> [t |-> "object", line |-> LineOf(txt, open),
                              members |-> Append(acc, m), elems |-> <<>>,
                              s |-> <<>>]]
            ELSE ParseFail

ParseElems(txt, p, acc, open) ==
  IF p > Len(txt) THEN ParseFail
  ELSE IF txt[p] = "]" /\ acc = <<>>
    THEN [ok |-> TRUE, pos |-> p + 1,
          node |-> [t |-> "array", line |-> LineOf(txt, open),
                    members |-> <<>>, elems |-> acc, s |-> <<>>]]
  ELSE
    LET v == ParseValue(txt, p)
        e == SkipWs(txt, v.pos)
    IN IF ~v.ok \/ e > Len(txt) THEN ParseFail
       ELSE IF txt[e] = ","
         THEN LET n == SkipWs(txt, e + 1)
              IN IF n <= Len(txt) /\ txt[n] # "]"
                 THEN ParseElems(txt, n, Append(acc, v.node), open)
                 ELSE ParseFail
       ELSE IF txt[e] = "]"
         THEN [ok |-> TRUE, pos |-> e + 1,
               node |-> [t |-> "array", line |-> LineOf(txt, open),
                         members |-> <<>>, elems |-> Append(acc, v.node),
                         s |-> <<>>]]
       ELSE ParseFail

ParseValue(txt, p0) ==
  LET p == SkipWs(txt, p0) IN
  IF p > Len(txt) THEN ParseFail
  ELSE IF txt[p] = "{" THEN ParseMembers(txt, SkipWs(txt, p + 1), <<>>, p)
  ELSE IF txt[p] = "[" THEN ParseElems(txt, SkipWs(txt, p + 1), <<>>, p)
  ELSE IF txt[p] = DQ
    THEN LET k == ParseStringBody(txt, p + 1, <<>>)
         IN IF k.ok
            THEN [Scalar("string", txt, p, k.pos) EXCEPT !.node.s = k.s]
            ELSE ParseFail
  ELSE IF txt[p] = "0" THEN Scalar("number", txt, p, p + 1)
  ELSE IF txt[p] \in Digits THEN Scalar("number", txt, p, SkipDigits(txt, p))
  ELSE IF IsWordAt(txt, p, <<"t", "r", "u", "e">>)
    THEN Scalar("boolean", txt, p, p + 4)
  ELSE IF IsWordAt(txt, p, <<"f", "a", "l", "s", "e">>)
    THEN Scalar("boolean", txt, p, p + 5)
  ELSE IF IsWordAt(txt, p, <<"n", "u", "l", "l">>)
    THEN Scalar("null", txt, p, p + 4)
  ELSE ParseFail

\* JSON.parse(fileContent): the parsed value, or a node of type "error" when
\* JSON.parse throws a SyntaxError
JSONparse(txt) ==
  LET r == ParseValue(txt, 1)
  IN IF r.ok /\ SkipWs(txt, r.pos) > Len(txt)
     THEN r.node
     ELSE [t |-> "error", line |-> 0, members |-> <<>>, elems |-> <<>>, s |-> <<>>]

ParseOk(txt) == JSONparse(txt).t # "error"

\* own property lookup of a parsed object: the last member of that name wins
HasMember(node, name) ==
  node.t = "object" /\ \E i \in 1..Len(node.members) : node.members[i].key = name

MemberOf(node, name) ==
  node.members[CHOOSE i \in 1..Len(node.members) :
                 /\ node.members[i].key = name
                 /\ \A k \in (i + 1)..Len(node.members) :
                      node.members[k].key # name]

\* ------------------------------------------------------------- the resolver
\* fs.readFileSync(filePath, 'utf8') throws when the file cannot be read
Catch(v, handler) == IF v = Throw THEN handler ELSE v

\* `${undefined}`: pathParts[pathParts.length - 2] of a one-step path
UndefinedStr == <<"u", "n", "d", "e", "f", "i", "n", "e", "d">>

\* findLineNumberByTextSearch, index branch: the loop over the lines
RECURSIVE TextSearchIndexLoop(_, _, _, _, _, _, _)
TextSearchIndexLoop(lines, n, foundParent, arrayDepth, elementIndex, parent, target) ==
  IF n > Len(lines) THEN null
  ELSE
    LET line == lines[n]
        found == foundParent \/ Includes(line, Quoted(parent))
        d1 == IF Includes(line, <<"[">>) THEN arrayDepth + 1 ELSE arrayDepth
        closes == Includes(line, <<"]">>)
        d2 == IF closes THEN d1 - 1 ELSE d1
        e2 == IF closes /\ d2 = 0 THEN elementIndex + 1 ELSE elementIndex
    IN IF ~found
       THEN TextSearchIndexLoop(lines, n + 1, FALSE, arrayDepth, elementIndex,
                                parent, target)
       ELSE IF closes /\ d2 = 0 /\ elementIndex = target THEN n
       ELSE IF d2 > 0 /\ Includes(line, <<"{">>) /\ e2 = target THEN n
       ELSE TextSearchIndexLoop(lines, n + 1, TRUE, d2, e2,
                                parent, target)

findLineNumberByTextSearch(lines, pathParts) ==
  IF Len(pathParts) = 0 THEN null
  ELSE
    LET targetProperty == pathParts[Len(pathParts)]
    IN IF IsIndex(targetProperty)
       THEN IF Len(pathParts) > 1
            THEN TextSearchIndexLoop(lines, 1, FALSE, 0, 0,
                                     pathParts[Len(pathParts) - 1],
                                     parseInt(targetProperty))
            ELSE null
       ELSE FirstLine(lines, LAMBDA l : MatchesKeyColon(l, targetProperty))

\* findArrayElementLine: the for...of loop over the characters of one line;
\* ret is set by the return inside the loop, a break ends the loop early
RECURSIVE ArrayElementChars(_, _, _, _, _)
ArrayElementChars(line, i, bracketDepth, currentIndex, elementIndex) ==
  IF i > Len(line)
  THEN [bracketDepth |-> bracketDepth, currentIndex |-> currentIndex, ret |-> FALSE]
  ELSE IF line[i] = "["
    THEN ArrayElementChars(line, i + 1, bracketDepth + 1, currentIndex, elementIndex)
  ELSE IF line[i] = "]"
    THEN IF bracketDepth - 1 = 0
         THEN [bracketDepth |-> 0, currentIndex |-> currentIndex, ret |-> FALSE]
         ELSE ArrayElementChars(line, i + 1, bracketDepth - 1, currentIndex,
                                elementIndex)
  ELSE IF bracketDepth = 1 /\ line[i] = "{"
    THEN IF currentIndex = elementIndex
         THEN [bracketDepth |-> bracketDepth, currentIndex |-> currentIndex,
               ret |-> TRUE]
         ELSE ArrayElementChars(line, i + 1, bracketDepth, currentIndex + 1,
                                elementIndex)
  ELSE ArrayElementChars(line, i + 1, bracketDepth, currentIndex, elementIndex)

RECURSIVE ArrayElementLoop(_, _, _, _, _, _, _)
ArrayElementLoop(lines, n, foundArray, bracketDepth, currentIndex, name, elementIndex) ==
  IF n > Len(lines) THEN null
  ELSE IF ~foundArray
    THEN ArrayElementLoop(lines, n + 1, Includes(lines[n], Quoted(name)),
                          bracketDepth, currentIndex, name, elementIndex)
  ELSE
    LET c == ArrayElementChars(lines[n], 1, bracketDepth, currentIndex, elementIndex)
    IN IF c.ret THEN n
       ELSE IF /\ c.bracketDepth = 1
               /\ c.currentIndex = elementIndex
               /\ TrimStartsWithBrace(lines[n])
         THEN n
       ELSE ArrayElementLoop(lines, n + 1, TRUE, c.bracketDepth, c.currentIndex,
                             name, elementIndex)

findArrayElementLine(lines, arrayProperty, elementIndex) ==
  ArrayElementLoop(lines, 1, FALSE, 0, 0, arrayProperty, elementIndex)

\* findValueLineNumber is called once the walk has succeeded, so its own
\* navigation to the value reads defined values only and its result is unused
findValueLineNumber(lines, pathParts) ==
  LET targetProperty == pathParts[Len(pathParts)]
  IN IF IsIndex(targetProperty)
     THEN findArrayElementLine(lines,
            IF Len(pathParts) > 1 THEN pathParts[Len(pathParts) - 1]
            ELSE UndefinedStr,
            parseInt(targetProperty))
     ELSE FirstLine(lines, LAMBDA l : MatchesKeyColon(l, targetProperty))

\* `part in current` also holds for the names an object or array inherits
InheritedKeys ==
  {<<"c", "o", "n", "s", "t", "r", "u", "c", "t", "o", "r">>,
   <<"t", "o", "S", "t", "r", "i", "n", "g">>}

\* the walk of findLineNumberForPath from step i (1-based) at value current:
\* 0 when every step resolves, -1 when an index step fails (return null),
\* otherwise the step at which a property step fails (text search from it)
RECURSIVE WalkFrom(_, _, _)
WalkFrom(current, pathParts, i) ==
  IF i > Len(pathParts) THEN 0
  ELSE
    LET part == pathParts[i]
    IN IF IsIndex(part)
       THEN IF current.t = "array" /\ parseInt(part) < Len(current.elems)
            THEN WalkFrom(current.elems[parseInt(part) + 1], pathParts, i + 1)
            ELSE 0 - 1
       ELSE IF HasMember(current, part)
            THEN WalkFrom(MemberOf(current, part).val, pathParts, i + 1)
            ELSE IF current.t \in {"object", "array"} /\ part \in InheritedKeys
            THEN WalkFrom([t |-> "function", line |-> 0, members |-> <<>>,
                           elems |-> <<>>, s |-> <<>>], pathParts, i + 1)
            ELSE i

findLineNumberForPathBody(file, jsonPath) ==
  IF ~file.readable THEN Throw
  ELSE
    LET lines == Split(file.text, NL)
        pathParts == SplitPath(jsonPath)
        jsonData == JSONparse(file.text)
    IN IF Len(pathParts) = 0 THEN null
       ELSE IF jsonData.t = "error"
         THEN findLineNumberByTextSearch(lines, pathParts)
       ELSE
         LET w == WalkFrom(jsonData, pathParts, 1)
         IN IF w = 0 - 1 THEN null
            ELSE IF w > 0
              THEN findLineNumberByTextSearch(lines,
                     SubSeq(pathParts, w, Len(pathParts)))
            ELSE findValueLineNumber(lines, pathParts)

\* the catch block reads the file again inside its own try
findLineNumberForPathCatch(file, jsonPath) ==
  Catch(IF ~file.readable THEN Throw
        ELSE findLineNumberByTextSearch(Split(file.text, NL), SplitPath(jsonPath)),
        null)

findLineNumberForPath(file, jsonPath) ==
  Catch(findLineNumberForPathBody(file, jsonPath),
        findLineNumberForPathCatch(file, jsonPath))

\* findErrorLineNumber: the state of the scan before the first character
ScanInit ==
  [pathIndex |-> 0, inString |-> FALSE, escapeNext |-> FALSE,
   currentKey |-> <<>>, bracketDepth |-> 0, braceDepth |-> 0,
   arrayIndex |-> 0, ret |-> null]

currentDepth == 0

\* one iteration of the inner loop: character i (1-based) of the line with
\* 0-based number lineNum; ret becomes lineNum + 1 where the code returns
ScanChar(s, line, i, lineNum, pathParts) ==
  LET char == line[i] IN
  IF s.escapeNext THEN [s EXCEPT !.escapeNext = FALSE]
  ELSE IF char = BS THEN [s EXCEPT !.escapeNext = TRUE]
  ELSE IF char = DQ
    THEN IF s.inString /\ s.currentKey # <<>>
         THEN IF /\ s.pathIndex < Len(pathParts)
                 /\ s.currentKey = pathParts[s.pathIndex + 1]
              THEN IF s.pathIndex + 1 = Len(pathParts)
                   THEN [s EXCEPT !.inString = FALSE, !.pathIndex = @ + 1,
                                  !.ret = lineNum + 1]
                   ELSE [s EXCEPT !.inString = FALSE, !.pathIndex = @ + 1,
                                  !.currentKey = <<>>]
              ELSE [s EXCEPT !.inString = FALSE, !.currentKey = <<>>]
         ELSE [s EXCEPT !.inString = ~@]
  ELSE IF ~s.inString
    THEN IF char = "{" THEN [s EXCEPT !.braceDepth = @ + 1]
         ELSE IF char = "}"
           THEN [s EXCEPT !.braceDepth = @ - 1,
                          !.pathIndex =
                             IF /\ s.braceDepth - 1 < currentDepth
                                /\ @ > 0
                                /\ s.braceDepth - 1 < @
                             THEN Max(0, @ - 1) ELSE @]
         ELSE IF char = "["
           THEN IF /\ s.pathIndex < Len(pathParts)
                   /\ IsIndex(pathParts[s.pathIndex + 1])
                   /\ s.arrayIndex = parseInt(pathParts[s.pathIndex + 1])
                   /\ s.bracketDepth + 1 = 1
                THEN [s EXCEPT !.bracketDepth = @ + 1, !.pathIndex = @ + 1,
                               !.ret = IF s.pathIndex + 1 = Len(pathParts)
                                       THEN lineNum + 1 ELSE null]
                ELSE [s EXCEPT !.bracketDepth = @ + 1]
         ELSE IF char = "]"
           THEN [s EXCEPT !.bracketDepth = @ - 1,
                          !.arrayIndex = IF s.bracketDepth - 1 = 0
                                         THEN @ + 1 ELSE @]
         ELSE IF char = ":" /\ s.currentKey # <<>>
           THEN [s EXCEPT !.currentKey = <<>>]
         ELSE IF char \in WordChars
           THEN IF i = 1 \/ line[i - 1] = DQ \/ line[i - 1] \notin WordChars
                THEN [s EXCEPT !.currentKey = Append(@, char)]
                ELSE s
         ELSE s
  ELSE IF char \in WordChars THEN [s EXCEPT !.currentKey = Append(@, char)]
  ELSE s

\* the inner loop from character i, stopping where the code returns
RECURSIVE ScanLine(_, _, _, _, _)
ScanLine(s, line, i, lineNum, pathParts) ==
  IF i > Len(line) \/ s.ret # null THEN s
  ELSE ScanLine(ScanChar(s, line, i, lineNum, pathParts), line, i + 1,
                lineNum, pathParts)

\* the outer loop from the line with 0-based number lineNum
RECURSIVE ScanLines(_, _, _, _)
ScanLines(s, lines, lineNum, pathParts) ==
  IF lineNum >= Len(lines) \/ s.ret # null THEN s
  ELSE ScanLines(ScanLine(s, lines[lineNum + 1], 1, lineNum, pathParts),
                 lines, lineNum + 1, pathParts)

\* err.instancePath || err.dataPath || ''
ErrPath(err) ==
  IF err.instancePath # <<>> THEN err.instancePath
  ELSE IF err.dataPath # <<>> THEN err.dataPath
  ELSE <<>>

\* the fallback after the scan: the last step, when it is a property name
ScanFallback(lines, pathParts) ==
  LET lastProperty == pathParts[Len(pathParts)]
  IN IF ~IsIndex(lastProperty)
     THEN FirstLine(lines, LAMBDA l : Includes(l, Quoted(lastProperty)))
     ELSE null

\* the root-level search extended to the property a required error names
RootLevelLineAnyProperty(lines, err) ==
  IF err.params.present /\ err.params.additionalProperty # <<>>
  THEN FirstLine(lines, LAMBDA l : MatchesKeyColon(l, err.params.additionalProperty))
  ELSE IF err.params.present /\ err.params.missingProperty # <<>>
  THEN FirstLine(lines, LAMBDA l : MatchesKeyColon(l, err.params.missingProperty))
  ELSE null

\* root-level errors: only an additionalProperty is searched for
RootLevelLine(lines, err) ==
  IF err.params.present /\ err.params.additionalProperty # <<>>
  THEN FirstLine(lines, LAMBDA l : MatchesKeyColon(l, err.params.additionalProperty))
  ELSE null

findErrorLineNumberBody(file, err) ==
  IF ~file.readable \/ ~err.defined THEN Throw
  ELSE
    LET lines == Split(file.text, NL)
        errPath == ErrPath(err)
        pathParts == SplitPath(errPath)
    IN IF errPath = <<>> THEN RootLevelLine(lines, err)
       ELSE IF Len(pathParts) = 0 THEN null
       ELSE
         LET s == ScanLines(ScanInit, lines, 0, pathParts)
         IN IF s.ret # null THEN s.ret ELSE ScanFallback(lines, pathParts)

\* findErrorLineNumber without its try/catch
findErrorLineNumberNoCatch(file, err) == findErrorLineNumberBody(file, err)

findErrorLineNumber(file, err) == Catch(findErrorLineNumberBody(file, err), null)

\* ------------------------------------------------------------ the formatter
\* colors and colorize(text, color)
colors ==
  [reset |-> "ESC[0m", red |-> "ESC[31m", yellow |-> "ESC[33m",
   cyan |-> "ESC[36m", dim |-> "ESC[2m"]

colorize(text, color) == <<colors[color]>> \o text \o <<colors.reset>>

ColorCodes == {colors[c] : c \in DOMAIN colors}

IsText(tok) == tok \notin ColorCodes

\* a rendered text with the colour codes taken out
Plain(text) == SelectSeq(text, IsText)

\* the messages of the validator, as sequences of the pieces the formatter
\* looks for; message.includes(piece) is the presence of the piece
MsgAdditional == <<"must NOT have additional properties">>
MsgRequired(prop) == <<"must have required property", " '">> \o prop \o <<"'">>
MsgOther == <<"must be string">>
MsgDependency == <<"must have property b when property a is present">>

MessageIncludes(message, piece) == \E i \in 1..Len(message) : message[i] = piece

\* formatErrorMessage(err, filePath): threw is set when message.includes is
\* applied to an undefined err.message (a TypeError)
formatErrorMessage(err, file) ==
  LET lineNumber == findErrorLineNumber(file, err)
      m1 == IF /\ MessageIncludes(err.message, "must NOT have additional properties")
               /\ err.params.present
               /\ err.params.additionalProperty # <<>>
            THEN <<"must NOT have additional property", " ">>
                 \o colorize(Quoted(err.params.additionalProperty), "yellow")
            ELSE err.message
      m2 == IF /\ MessageIncludes(m1, "must have required property")
               /\ err.params.present
               /\ err.params.missingProperty # <<>>
            THEN <<"must have required property", " ">>
                 \o colorize(Quoted(err.params.missingProperty), "yellow")
            ELSE m1
      m3 == IF lineNumber # null
            THEN m2 \o <<" ">>
                 \o colorize(<<"(line ">> \o NumberToString(lineNumber) \o <<")">>,
                             "dim")
            ELSE m2
  IN IF ~err.hasMessage
     THEN [threw |-> TRUE, text |-> <<>>]
     ELSE [threw |-> FALSE, text |-> m3]

\* ------------------------------------------------------- resolver inputs
\* {"a": {"b": [1,2,3]}}
LineScalars ==
  <<"{", DQ, "a", DQ, ":", SP, "{", DQ, "b", DQ, ":", SP, "[",
    "1", ",", "2", ",", "3", "]", "}", "}">>

\* {"b": {"a": 1},
LineNested ==
  <<"{", DQ, "b", DQ, ":", SP, "{", DQ, "a", DQ, ":", SP, "1", "}", ",">>

\* "a": 2}
LineKeyA == <<DQ, "a", DQ, ":", SP, "2", "}">>

\* "z": 2}
LineKeyZ == <<DQ, "z", DQ, ":", SP, "2", "}">>

\* {"k": [{"a": 1},
LineArrayOpen ==
  <<"{", DQ, "k", DQ, ":", SP, "[", "{", DQ, "a", DQ, ":", SP, "1", "}", ",">>

\* {"a": 2}]}
LineArrayClose == <<"{", DQ, "a", DQ, ":", SP, "2", "}", "]", "}">>

\* }]"\
LineGarbage == <<"}", "]", DQ, BS>>

\* "": 2}
LineKeyEmpty == <<DQ, DQ, ":", SP, "2", "}">>

\* {"a\"}": "{"}
LineEscapes ==
  <<"{", DQ, "a", BS, DQ, "}", DQ, ":", SP, DQ, "{", DQ, "}">>

\* \{"z": [
LineBackslash == <<BS, "{", DQ, "z", DQ, ":", SP, "[">>

\* {"0": {"a": 1}}
LineDigitKey ==
  <<"{", DQ, "0", DQ, ":", SP, "{", DQ, "a", DQ, ":", SP, "1", "}", "}">>

\* {"k": [1, "a"], "n": 1,
LineValueA ==
  <<"{", DQ, "k", DQ, ":", SP, "[", "1", ",", SP, DQ, "a", DQ, "]", ",", SP,
    DQ, "n", DQ, ":", SP, "1", ",">>

LineSet ==
  {LineScalars, LineNested, LineKeyA, LineKeyZ, LineArrayOpen, LineArrayClose,
   LineGarbage, LineKeyEmpty, LineDigitKey, LineValueA}

\* lines.join('\n'): the text of a file made of the given lines
RECURSIVE Join(_)
Join(ls) ==
  IF Len(ls) = 0 THEN <<>>
  ELSE IF Len(ls) = 1 THEN ls[1]
  ELSE ls[1] \o <<NL>> \o Join(Tail(ls))

Texts == {Join(ls) : ls \in UNION {[1..n -> LineSet] : n \in 1..MaxLines}}

Unreadable == [readable |-> FALSE, text |-> <<>>]

Files == {[readable |-> TRUE, text |-> t] : t \in Texts} \cup {Unreadable}

PathA == <<"/", "a">>
PathB == <<"/", "b">>
PathBA == <<"/", "b", "/", "a">>
PathAB0 == <<"/", "a", "/", "b", "/", "0">>
PathAB1 == <<"/", "a", "/", "b", "/", "1">>
PathK0 == <<"/", "k", "/", "0">>
PathK1 == <<"/", "k", "/", "1">>
PathK1A == <<"/", "k", "/", "1", "/", "a">>
PathZ == <<"/", "z">>
PathSlash == <<"/">>
Path0A == <<"/", "0", "/", "a">>

Paths ==
  {PathA, PathB, PathBA, PathAB0, PathAB1, PathK0, PathK1, PathK1A, PathZ,
   PathSlash, Path0A}

NoParams ==
  [present |-> FALSE, additionalProperty |-> <<>>, missingProperty |-> <<>>,
   other |-> FALSE]

ParamsAdditional(prop) == [NoParams EXCEPT !.present = TRUE, !.additionalProperty = prop]
ParamsMissing(prop) == [NoParams EXCEPT !.present = TRUE, !.missingProperty = prop]
ParamsOther == [NoParams EXCEPT !.present = TRUE, !.other = TRUE]

\* the error objects of the validator: keyword names the schema keyword that
\* failed; a property name that is the empty string is <<>>, which the
\* truthiness tests of the source do not tell from an absent name
ErrAt(path) ==
  [defined |-> TRUE, keyword |-> "type", instancePath |-> path, dataPath |-> <<>>,
   hasMessage |-> TRUE, message |-> MsgOther, params |-> ParamsOther]

ErrAdditional(prop) ==
  [defined |-> TRUE, keyword |-> "additionalProperties", instancePath |-> <<>>, dataPath |-> <<>>,
   hasMessage |-> TRUE, message |-> MsgAdditional, params |-> ParamsAdditional(prop)]

ErrRequired(prop) ==
  [defined |-> TRUE, keyword |-> "required", instancePath |-> <<>>, dataPath |-> <<>>,
   hasMessage |-> TRUE, message |-> MsgRequired(prop), params |-> ParamsMissing(prop)]

\* an error object without a message (ErrorObject.message is optional)
ErrNoMessage ==
  [defined |-> TRUE, keyword |-> "type", instancePath |-> PathA, dataPath |-> <<>>,
   hasMessage |-> FALSE, message |-> <<>>, params |-> NoParams]

\* err = null or undefined
NullErr ==
  [defined |-> FALSE, keyword |-> "", instancePath |-> <<>>, dataPath |-> <<>>,
   hasMessage |-> FALSE, message |-> <<>>, params |-> NoParams]

\* the error of the dependencies keyword: its params name a missingProperty and
\* its message is not the message of the required keyword
ErrDependency ==
  [defined |-> TRUE, keyword |-> "dependencies", instancePath |-> <<>>,
   dataPath |-> <<>>, hasMessage |-> TRUE, message |-> MsgDependency,
   params |-> [ParamsMissing(<<"b">>) EXCEPT !.other = TRUE]]

\* property names: "a", "z" and the empty string
PropNames == {<<"a">>, <<"z">>, <<>>}

ResolverErrs ==
  {ErrAt(p) : p \in Paths}
    \cup {ErrAdditional(n) : n \in PropNames}
    \cup {ErrRequired(n) : n \in PropNames}
    \cup {ErrDependency, ErrNoMessage, NullErr}

\* ------------------------------------------------------- the validation run
\* parseErrorLocation: errorMessage.match(/word\s+(\d+)/): the first place
\* where the word is followed by whitespace and digits, and the digits
MatchNumberAfter(msg, word) ==
  LET Starts(i) ==
        /\ msg[i] = word
        /\ \E j \in (i + 2)..Len(msg) :
             /\ msg[j] \in Digits
             /\ \A k \in (i + 1)..(j - 1) : msg[k] \in Whitespace
      hits == {i \in 1..Len(msg) : Starts(i)}
  IN IF hits = {} THEN [matched |-> FALSE, value |-> 0]
     ELSE
       LET i == CHOOSE h \in hits : \A g \in hits : h <= g
           j == CHOOSE d \in (i + 2)..Len(msg) :
                  /\ msg[d] \in Digits
                  /\ \A k \in (i + 1)..(d - 1) : msg[k] \in Whitespace
       IN [matched |-> TRUE,
           value |-> parseInt(SubSeq(msg, j, SkipDigits(msg, j) - 1))]

NoLocation == [present |-> FALSE, line |-> 0, hasColumn |-> FALSE, column |-> 0]

\* parseErrorLocation taking the line from the column match
parseErrorLocationColumnAsLine(errorMessage) ==
  LET columnMatch == MatchNumberAfter(errorMessage, "column")
  IN IF columnMatch.matched
     THEN [present |-> TRUE, line |-> columnMatch.value,
           hasColumn |-> TRUE, column |-> columnMatch.value]
     ELSE NoLocation

parseErrorLocation(errorMessage) ==
  LET lineMatch == MatchNumberAfter(errorMessage, "line")
      columnMatch == MatchNumberAfter(errorMessage, "column")
  IN IF lineMatch.matched
     THEN [present |-> TRUE, line |-> lineMatch.value,
           hasColumn |-> columnMatch.matched,
           column |-> IF columnMatch.matched THEN columnMatch.value ELSE 0]
     ELSE NoLocation

\* the messages of the errors a try block of the run can catch
SyntaxErrorPlain == <<"Unexpected token", SP, "}", SP, "in JSON at position", SP, "6">>

SyntaxErrorWithLine ==
  <<"Unexpected non-whitespace character after JSON at position", SP, "6", SP,
    "(", "line", SP, "1", SP, "column", SP, "7", ")">>

ParseMessages == {SyntaxErrorPlain, SyntaxErrorWithLine}

NotAFunction == <<"validator.validator is not a function">>

CannotReadIncludes ==
  <<"Cannot read properties of undefined (reading 'includes')">>

\* Map directory names to schema types
directoryToSchemaType ==
  [Schemas |-> "schema", Workflows |-> "workflow", Tasks |-> "task",
   Views |-> "view", Functions |-> "function", Extensions |-> "extension"]

\* validators is an object literal {}: besides the compiled validators it
\* answers for the names every object inherits
ObjectPrototypeNames ==
  {"constructor", "toString", "valueOf", "hasOwnProperty", "isPrototypeOf",
   "propertyIsEnumerable", "toLocaleString", "__proto__"}

\* validators[part]: compiled is set for a validator compiled from a schema
validators(part) ==
  IF part \in DOMAIN directoryToSchemaType
  THEN [found |-> TRUE, compiled |-> TRUE, type |-> directoryToSchemaType[part]]
  ELSE IF part \in ObjectPrototypeNames
  THEN [found |-> TRUE, compiled |-> FALSE, type |-> "undefined"]
  ELSE [found |-> FALSE, compiled |-> FALSE, type |-> "undefined"]

\* path.relative(domainPath, path.dirname(fullPath)).split(path.sep)
RelativeParts(dirs) == IF dirs = <<>> THEN <<"">> ELSE dirs

\* the matching directory nearest to the file
NearestMatching(pathParts) ==
  IF \E i \in 1..Len(pathParts) : validators(pathParts[i]).found
  THEN validators(pathParts[CHOOSE i \in 1..Len(pathParts) :
                    /\ validators(pathParts[i]).found
                    /\ \A k \in (i + 1)..Len(pathParts) :
                         ~validators(pathParts[k]).found])
  ELSE validators("")

\* Find the first matching directory in the path
FirstMatching(pathParts) ==
  IF \E i \in 1..Len(pathParts) : validators(pathParts[i]).found
  THEN validators(pathParts[CHOOSE i \in 1..Len(pathParts) :
                    /\ validators(pathParts[i]).found
                    /\ \A k \in 1..(i - 1) : ~validators(pathParts[k]).found])
  ELSE validators("")

\* one line of the report of a failing file, for one error of the validator
ErrorOutput(e, f) ==
  LET formattedMessage == formatErrorMessage(e, f)
      errPath == ErrPath(e)
      start == IF errPath # <<>>
               THEN colorize(errPath, "cyan") \o <<": ">> ELSE <<>>
      params == IF /\ e.params.present
                   /\ e.params.additionalProperty = <<>>
                   /\ e.params.missingProperty = <<>>
                THEN <<" ">> \o colorize(<<"(", "JSON.stringify(err.params)", ")">>,
                                         "yellow")
                ELSE <<>>
  IN [threw |-> formattedMessage.threw,
      text |-> <<"  ">> \o start \o colorize(formattedMessage.text, "red") \o params]

RECURSIVE ErrorMessages(_, _)
ErrorMessages(validationErrors, f) ==
  IF validationErrors = <<>> THEN <<>>
  ELSE <<ErrorOutput(validationErrors[1], f)>>
       \o ErrorMessages(Tail(validationErrors), f)

AnyThrew(outs) == \E k \in 1..Len(outs) : outs[k].threw

\* errors.push of the else branch (the validator reported errors)
SchemaFailureRecord(i, type, outs) ==
  [file |-> i, type |-> type, caught |-> FALSE,
   message |-> [k \in 1..Len(outs) |-> outs[k].text], location |-> NoLocation]

\* errors.push of the catch block
CaughtRecord(i, type, errorMessage) ==
  [file |-> i, type |-> IF type = "undefined" THEN "unknown" ELSE type,
   caught |-> TRUE, message |-> <<errorMessage>>,
   location |-> parseErrorLocation(errorMessage)]

\* the texts of the files of the tree and what the validator reports on them
ValidText == Join(<<LineNested, LineKeyZ>>)
InvalidText == LineKeyA

ValidatorReports ==
  {<<>>, <<ErrAdditional(<<"z">>)>>, <<ErrNoMessage>>,
   <<ErrAt(PathBA), ErrRequired(<<"a">>)>>}

DirPaths ==
  {<<>>, <<"docs">>, <<"constructor">>, <<"Schemas">>, <<"Schemas", "Workflows">>,
   <<"constructor", "Schemas", "Workflows">>}

\* the message of the error fs.readFileSync throws for a file it cannot read
ReadFailed == <<"EACCES: permission denied, open">>

\* a JSON file of the tree: the directories from the domain directory down to
\* it, its text, the message JSON.parse throws on it, the errors the validator
\* reports on it, and what the file system does: io is "ok", "read" when
\* fs.readFileSync throws on the file, "list" when fs.readdirSync throws on
\* the sub-directory that holds it
Entries ==
  {[dirs |-> d, text |-> ValidText, parseMessage |-> <<>>, report |-> r,
    io |-> "ok"] : d \in DirPaths, r \in ValidatorReports}
  \cup
  {[dirs |-> d, text |-> InvalidText, parseMessage |-> m, report |-> <<>>,
    io |-> "ok"] : d \in DirPaths, m \in ParseMessages}
  \cup
  {[dirs |-> <<"Schemas">>, text |-> ValidText, parseMessage |-> <<>>,
    report |-> <<>>, io |-> f] : f \in {"read", "list"}}

Trees == UNION {[1..n -> Entries] : n \in 0..MaxFiles}

\* ------------------------------------------------------------------ state
VARIABLES
  file,        \* resolver: the file handed to the resolver
  err,         \* resolver: the error object handed to it
  rpc,         \* resolver: which calls have been made
  lineNumber,  \* resolver: result of findErrorLineNumber
  pathLine,    \* resolver: result of findLineNumberForPath
  formatted,   \* resolver: result of formatErrorMessage
  output,      \* resolver: the report line made of the error
  tree,        \* run: the JSON files of the domain directory, in readdir order
  pc,          \* run: the validate() call in progress
  idx,         \* run: the next entry of the traversal in progress
  jsonFileCount,      \* syntax pass
  validationsPassed,
  validationsFailed,
  enabled,            \* schemaValidationStats.enabled
  validatedCount,
  errorCount,
  errors,
  passedFiles,
  schemaValidationStats,
  exitCode,           \* process.exit(code); -1 while running
  filesVisited,       \* history: JSON files the schema pass has visited
  validatorCalls,     \* history: files handed to a compiled validator
  resolverCalls,      \* history: files for which findErrorLineNumber ran
  checksFailed,       \* history: failed validations other than 5 and 5b
  syntaxFailures,     \* history: failures that ended the syntax pass
  run,                \* which run of the program on the tree this is
  firstRun            \* history: what the first run reported

\* setup.js and sync-schema-version.js
VARIABLES
  variant,        \* setup: which copy of setup.js runs
  argv,           \* setup: process.argv.slice(2)
  envDomainName,  \* setup: process.env.DOMAIN_NAME
  stdio,          \* setup: what isNonInteractive() reads
  answer,         \* setup: the line typed at the prompt
  setupPc,        \* setup: position in setup()
  domainName,     \* setup: const domainName of setup()
  source,         \* setup, history: where getDomainName took the name from
  replacedWith,   \* setup, history: the name replaceInDirectory wrote
  renamedTo,      \* setup, history: the name touch/ was renamed to
  setupExit,      \* setup: exit code; -1 while running
  vnextConfig,      \* sync: vnext.config.json on disk
  packageJsonText,  \* sync: the text of package.json on disk
  writable,         \* sync: whether package.json can be written
  syncPc,           \* sync: position in the script
  schemaVersion,    \* sync: const schemaVersion
  syncExit,         \* sync: exit code; -1 while running
  syncRun,          \* sync: which run of the script this is
  writes            \* sync, history: writes to package.json by this run

\* the scan of findErrorLineNumber, one character at a time
VARIABLES
  scanPc,       \* scan: "idle", "scanning", "fallback" or "returned"
  scanLineNum,  \* scan: lineNum of the outer loop
  scanI,        \* scan: i of the inner loop, 1-based
  scan,         \* scan: the local variables of the scan
  scanRead      \* scan, history: the characters the inner loop has read

scanVars == <<scanPc, scanLineNum, scanI, scan, scanRead>>

setupVars ==
  <<variant, argv, envDomainName, stdio, answer, setupPc, domainName, source,
    replacedWith, renamedTo, setupExit>>

syncVars ==
  <<vnextConfig, packageJsonText, writable, syncPc, schemaVersion, syncExit,
    syncRun, writes>>

\* The slot calculation of the availability function: the handler's inputs,
\* the locals of CalculateAvailableSlots and the position inside it.
VARIABLES
  durationStr,        \* the 'duration' query parameter
  workingHours,       \* the working-hours ranges of the requested day
  unavailableRanges,  \* the ranges taken by personal leaves
  durationMinutes,    \* the parsed duration handed to the calculation
  whIndex,            \* the position of the foreach over workingHours
  currentTime,        \* the loop's cursor: var current
  slots,              \* the slots added so far
  slotsPc             \* the position in the handler and the calculation

slotVars ==
  <<durationStr, workingHours, unavailableRanges, durationMinutes, whIndex,
    currentTime, slots, slotsPc>>

scriptVars == <<setupVars, syncVars, slotVars>>

resolverVars ==
  <<file, err, rpc, lineNumber, pathLine, formatted, output, scanVars>>

runVars ==
  <<tree, pc, idx, jsonFileCount, validationsPassed, validationsFailed, enabled,
    validatedCount, errorCount, errors, passedFiles, schemaValidationStats,
    exitCode, filesVisited, validatorCalls, resolverCalls, checksFailed,
    syntaxFailures, run, firstRun>>

vars == <<resolverVars, runVars, scriptVars>>

NoText == [threw |-> FALSE, text |-> <<>>]

\* a name that was not given: undefined, or null
NoName == [defined |-> FALSE, value |-> <<>>]

Name(v) == [defined |-> TRUE, value |-> v]

\* process.stdin.isTTY, process.env.CI, process.env.NPM_CONFIG_INTERACTIVE
Terminal == [isTTY |-> TRUE, CI |-> "", NPM_CONFIG_INTERACTIVE |-> ""]

NoConfig ==
  [readable |-> FALSE, schemaVersion |-> [type |-> "undefined", str |-> <<"undefined">>]]

SetupIdle ==
  /\ variant = "setup.js"
  /\ argv = <<>>
  /\ envDomainName = NoName
  /\ stdio = Terminal
  /\ answer = <<>>
  /\ setupPc = "idle"
  /\ domainName = NoName
  /\ source = "none"
  /\ replacedWith = NoName
  /\ renamedTo = NoName
  /\ setupExit = 0 - 1

SyncIdle ==
  /\ vnextConfig = NoConfig
  /\ packageJsonText = <<>>
  /\ writable = TRUE
  /\ syncPc = "idle"
  /\ schemaVersion = NoConfig.schemaVersion
  /\ syncExit = 0 - 1
  /\ syncRun = 1
  /\ writes = 0

NoStats == [filesValidated |-> 0, filesPassed |-> 0, filesFailed |-> 0]

\* what a run reports of the schema validation
Summary ==
  [enabled |-> enabled, stats |-> schemaValidationStats, errors |-> errors,
   passedFiles |-> passedFiles, validatedCount |-> validatedCount,
   errorCount |-> errorCount]

NoSummary ==
  [enabled |-> FALSE, stats |-> NoStats, errors |-> <<>>, passedFiles |-> <<>>,
   validatedCount |-> 0, errorCount |-> 0]

ScanIdle ==
  /\ scanPc = "idle"
  /\ scanLineNum = 0
  /\ scanI = 1
  /\ scan = ScanInit
  /\ scanRead = <<>>

ResolverIdle ==
  /\ file = Unreadable
  /\ err = NullErr
  /\ rpc = "idle"
  /\ lineNumber = null
  /\ pathLine = null
  /\ formatted = NoText
  /\ output = NoText
  /\ ScanIdle

\* The 'duration' query parameter: absent (null or empty), or a string that
\* int.Parse accepts (numeric) or rejects.
NoDuration == [given |-> FALSE, numeric |-> FALSE, value |-> 0]

SlotsIdle ==
  /\ durationStr = NoDuration
  /\ workingHours = <<>>
  /\ unavailableRanges = <<>>
  /\ durationMinutes = 0
  /\ whIndex = 1
  /\ currentTime = 0
  /\ slots = <<>>
  /\ slotsPc = "idle"

RunStart ==
  /\ pc = "checks"
  /\ idx = 1
  /\ jsonFileCount = 0
  /\ validationsPassed = 0
  /\ validationsFailed = 0
  /\ enabled = FALSE
  /\ validatedCount = 0
  /\ errorCount = 0
  /\ errors = <<>>
  /\ passedFiles = <<>>
  /\ schemaValidationStats = NoStats
  /\ exitCode = 0 - 1
  /\ filesVisited = 0
  /\ validatorCalls = {}
  /\ resolverCalls = {}
  /\ checksFailed = 0
  /\ syntaxFailures = 0
  /\ run = 1
  /\ firstRun = NoSummary

\* ------------------------------------------------------- the resolver alone
InitResolver ==
  /\ file \in Files
  /\ err \in ResolverErrs
  /\ rpc = "input"
  /\ lineNumber = null
  /\ pathLine = null
  /\ formatted = NoText
  /\ output = NoText
  /\ ScanIdle
  /\ tree = <<>>
  /\ RunStart
  /\ SlotsIdle
  /\ SetupIdle
  /\ SyncIdle

CallFindErrorLineNumber ==
  /\ rpc = "input"
  /\ lineNumber' = findErrorLineNumber(file, err)
  /\ rpc' = "scanned"
  /\ UNCHANGED <<file, err, pathLine, formatted, output, scanVars, runVars, scriptVars>>

CallFindLineNumberForPath ==
  /\ rpc = "scanned"
  /\ pathLine' = findLineNumberForPath(file, ErrPath(err))
  /\ rpc' = "walked"
  /\ UNCHANGED <<file, err, lineNumber, formatted, output, scanVars, runVars, scriptVars>>

CallFormatErrorMessage ==
  /\ rpc = "walked"
  /\ err.defined
  /\ formatted' = formatErrorMessage(err, file)
  /\ rpc' = "formatted"
  /\ UNCHANGED <<file, err, lineNumber, pathLine, output, scanVars, runVars, scriptVars>>

\* the callback of validationErrors.map applied to the error
CallErrorOutput ==
  /\ rpc = "formatted"
  /\ output' = ErrorOutput(err, file)
  /\ rpc' = "output"
  /\ UNCHANGED <<file, err, lineNumber, pathLine, formatted, scanVars, runVars, scriptVars>>

NextResolver ==
  \/ CallFindErrorLineNumber
  \/ CallFindLineNumberForPath
  \/ CallFormatErrorMessage
  \/ CallErrorOutput

SpecResolver == InitResolver /\ [][NextResolver]_vars

\* ------------------------------------- the scan, one character at a time
\* the lines and the path of the scan in progress
ScanLinesOf == Split(file.text, NL)

ScanParts == SplitPath(ErrPath(err))

\* the loop headers: the first position at or after (lineNum, i) that holds a
\* character, or lineNum = lines.length when the outer loop is over
RECURSIVE NextPosition(_, _, _)
NextPosition(lines, lineNum, i) ==
  IF lineNum >= Len(lines) THEN [lineNum |-> Len(lines), i |-> 1]
  ELSE IF i > Len(lines[lineNum + 1]) THEN NextPosition(lines, lineNum + 1, 1)
  ELSE [lineNum |-> lineNum, i |-> i]

\* documents and paths the scan is followed on
ScanLineSet ==
  {LineNested, LineKeyZ, LineArrayOpen, LineArrayClose, LineEscapes,
   LineBackslash, LineGarbage}

ScanTexts == {Join(ls) : ls \in UNION {[1..n -> ScanLineSet] : n \in 1..MaxLines}}

ScanPaths == {PathA, PathBA, PathZ, PathK0, PathK1, PathK1A}

\* findErrorLineNumber has read the file and split a path that has steps
InitScan ==
  /\ file \in {[readable |-> TRUE, text |-> t] : t \in ScanTexts}
  /\ err \in {ErrAt(q) : q \in ScanPaths}
  /\ rpc = "input"
  /\ lineNumber = null
  /\ pathLine = null
  /\ formatted = NoText
  /\ output = NoText
  /\ LET first == NextPosition(Split(file.text, NL), 0, 1)
     IN /\ scanLineNum = first.lineNum
        /\ scanI = first.i
        /\ scanPc = IF first.lineNum >= Len(Split(file.text, NL))
                    THEN "fallback" ELSE "scanning"
  /\ scan = ScanInit
  /\ scanRead = <<>>
  /\ tree = <<>>
  /\ RunStart
  /\ SlotsIdle
  /\ SetupIdle
  /\ SyncIdle

\* the step with a scanner that counts an opening brace inside a string too
ScanStepCountsInString ==
  /\ scanPc = "scanning"
  /\ LET line == ScanLinesOf[scanLineNum + 1]
         read == ScanChar(scan, line, scanI, scanLineNum, ScanParts)
         after == IF scan.inString /\ ~scan.escapeNext /\ line[scanI] = "{"
                  THEN [read EXCEPT !.braceDepth = @ + 1] ELSE read
         next == NextPosition(ScanLinesOf, scanLineNum, scanI + 1)
     IN /\ scan' = after
        /\ scanRead' = Append(scanRead, line[scanI])
        /\ IF after.ret # null
           THEN /\ scanPc' = "returned"
                /\ lineNumber' = after.ret
                /\ rpc' = "scanned"
                /\ UNCHANGED <<scanLineNum, scanI>>
           ELSE /\ scanLineNum' = next.lineNum
                /\ scanI' = next.i
                /\ scanPc' = IF next.lineNum >= Len(ScanLinesOf)
                             THEN "fallback" ELSE "scanning"
                /\ UNCHANGED <<lineNumber, rpc>>
  /\ UNCHANGED <<file, err, pathLine, formatted, output, runVars, scriptVars>>

\* one iteration of the inner loop, and the loop headers up to the next one
ScanStep ==
  /\ scanPc = "scanning"
  /\ LET line == ScanLinesOf[scanLineNum + 1]
         after == ScanChar(scan, line, scanI, scanLineNum, ScanParts)
         next == NextPosition(ScanLinesOf, scanLineNum, scanI + 1)
     IN /\ scan' = after
        /\ scanRead' = Append(scanRead, line[scanI])
        /\ IF after.ret # null
           THEN /\ scanPc' = "returned"
                /\ lineNumber' = after.ret
                /\ rpc' = "scanned"
                /\ UNCHANGED <<scanLineNum, scanI>>
           ELSE /\ scanLineNum' = next.lineNum
                /\ scanI' = next.i
                /\ scanPc' = IF next.lineNum >= Len(ScanLinesOf)
                             THEN "fallback" ELSE "scanning"
                /\ UNCHANGED <<lineNumber, rpc>>
  /\ UNCHANGED <<file, err, pathLine, formatted, output, runVars, scriptVars>>

\* the search after the scan, for the last step of the path
ScanFallbackStep ==
  /\ scanPc = "fallback"
  /\ lineNumber' = ScanFallback(ScanLinesOf, ScanParts)
  /\ scanPc' = "returned"
  /\ rpc' = "scanned"
  /\ UNCHANGED <<file, err, pathLine, formatted, output, scanLineNum, scanI,
                 scan, scanRead, runVars, scriptVars>>

NextScan ==
  \/ ScanStep
  \/ ScanFallbackStep

SpecScan == InitScan /\ [][NextScan]_vars

\* ------------------------------------------------------------------ the run
Init ==
  /\ ResolverIdle
  /\ tree \in Trees
  /\ RunStart
  /\ SlotsIdle
  /\ SetupIdle
  /\ SyncIdle

\* validations 1 to 4 (package.json, entry point, vnext.config.json, domain
\* directory) of a well-formed package: each validate() call counts a pass
RunPackageChecks ==
  /\ pc = "checks"
  /\ validationsPassed' = validationsPassed + 4
  /\ pc' = "syntax"
  /\ idx' = 1
  /\ UNCHANGED <<resolverVars, scriptVars, run, firstRun, tree, jsonFileCount, validationsFailed, enabled,
                 validatedCount, errorCount, errors, passedFiles,
                 schemaValidationStats, exitCode, filesVisited, validatorCalls,
                 resolverCalls, checksFailed, syntaxFailures>>

\* validation 5, validateJsonInDir: one JSON file; a parse failure, a file
\* that cannot be read or a sub-directory that cannot be listed is thrown out
\* of the traversal and validate() counts the validation as failed
SyntaxVisit ==
  /\ pc = "syntax"
  /\ idx <= Len(tree)
  /\ jsonFileCount' = IF tree[idx].io = "list" THEN jsonFileCount
                      ELSE jsonFileCount + 1
  /\ IF tree[idx].io = "ok" /\ ParseOk(tree[idx].text)
     THEN /\ idx' = idx + 1
          /\ UNCHANGED <<pc, validationsFailed, syntaxFailures>>
     ELSE /\ validationsFailed' = validationsFailed + 1
          /\ syntaxFailures' = syntaxFailures + 1
          /\ pc' = "schemaStart"
          /\ idx' = idx
  /\ UNCHANGED <<resolverVars, scriptVars, run, firstRun, tree, validationsPassed, enabled, validatedCount,
                 errorCount, errors, passedFiles, schemaValidationStats,
                 exitCode, filesVisited, validatorCalls, resolverCalls,
                 checksFailed>>

\* validation 5, after the domain directory: package.json, vnext.config.json
SyntaxRootFiles ==
  /\ pc = "syntax"
  /\ idx > Len(tree)
  /\ jsonFileCount' = jsonFileCount + 2
  /\ validationsPassed' = validationsPassed + 1
  /\ pc' = "schemaStart"
  /\ UNCHANGED <<resolverVars, scriptVars, run, firstRun, tree, idx, validationsFailed, enabled,
                 validatedCount, errorCount, errors, passedFiles,
                 schemaValidationStats, exitCode, filesVisited, validatorCalls,
                 resolverCalls, checksFailed, syntaxFailures>>

\* validation 5b up to the traversal, the counters of the traversal kept from
\* whatever ran before
SchemaStartKeepsCounts ==
  /\ pc = "schemaStart"
  /\ \E available \in BOOLEAN :
       IF available
       THEN /\ enabled' = TRUE
            /\ UNCHANGED <<validatedCount, errorCount, errors, passedFiles>>
            /\ pc' = "schema"
            /\ idx' = 1
            /\ UNCHANGED validationsPassed
       ELSE /\ validationsPassed' = validationsPassed + 1
            /\ pc' = "rest"
            /\ UNCHANGED <<enabled, idx, validatedCount, errorCount, errors,
                           passedFiles>>
  /\ UNCHANGED <<resolverVars, scriptVars, run, firstRun, tree, jsonFileCount, validationsFailed,
                 schemaValidationStats, exitCode, filesVisited, validatorCalls,
                 resolverCalls, checksFailed, syntaxFailures>>

\* validation 5b up to the traversal: without the schema package the
\* validation returns true at once; with it the counters of the traversal are
\* declared
SchemaStart ==
  /\ pc = "schemaStart"
  /\ \E available \in BOOLEAN :
       IF available
       THEN /\ enabled' = TRUE
            /\ validatedCount' = 0
            /\ errorCount' = 0
            /\ errors' = <<>>
            /\ passedFiles' = <<>>
            /\ pc' = "schema"
            /\ idx' = 1
            /\ UNCHANGED validationsPassed
       ELSE /\ validationsPassed' = validationsPassed + 1
            /\ pc' = "rest"
            /\ UNCHANGED <<enabled, idx, validatedCount, errorCount, errors,
                           passedFiles>>
  /\ UNCHANGED <<resolverVars, scriptVars, run, firstRun, tree, jsonFileCount, validationsFailed,
                 schemaValidationStats, exitCode, filesVisited, validatorCalls,
                 resolverCalls, checksFailed, syntaxFailures>>

\* validateJsonAgainstSchema reading the errors the validator left from the
\* file before
SchemaVisitStaleErrors ==
  /\ pc = "schema"
  /\ idx <= Len(tree)
  /\ tree[idx].io # "list"
  /\ LET entry == tree[idx]
         f == [readable |-> TRUE, text |-> entry.text]
         validator == FirstMatching(RelativeParts(entry.dirs))
         schemaType == validator.type
         parsed == ParseOk(entry.text)
         outs == ErrorMessages((IF idx > 1 THEN tree[idx - 1] ELSE entry).report, f)
     IN /\ filesVisited' = filesVisited + 1
        /\ idx' = idx + 1
        /\ IF ~validator.found
           THEN UNCHANGED <<validatedCount, errorCount, errors, passedFiles,
                            validatorCalls, resolverCalls>>
           ELSE
             /\ validatedCount' = validatedCount + 1
             /\ IF entry.io = "read"
                THEN /\ errorCount' = errorCount + 1
                     /\ errors' = Append(errors,
                          CaughtRecord(idx, schemaType, ReadFailed))
                     /\ UNCHANGED <<passedFiles, validatorCalls, resolverCalls>>
                ELSE IF ~parsed
                THEN /\ errorCount' = errorCount + 1
                     /\ errors' = Append(errors,
                          CaughtRecord(idx, schemaType, entry.parseMessage))
                     /\ UNCHANGED <<passedFiles, validatorCalls, resolverCalls>>
                ELSE IF ~validator.compiled
                THEN /\ errorCount' = errorCount + 1
                     /\ errors' = Append(errors,
                          CaughtRecord(idx, schemaType, NotAFunction))
                     /\ UNCHANGED <<passedFiles, validatorCalls, resolverCalls>>
                ELSE IF entry.report = <<>>
                THEN /\ passedFiles' = Append(passedFiles,
                          [file |-> idx, type |-> schemaType])
                     /\ validatorCalls' = validatorCalls \cup {idx}
                     /\ UNCHANGED <<errorCount, errors, resolverCalls>>
                ELSE IF AnyThrew(outs)
                THEN /\ errorCount' = errorCount + 2
                     /\ errors' = Append(errors,
                          CaughtRecord(idx, schemaType, CannotReadIncludes))
                     /\ validatorCalls' = validatorCalls \cup {idx}
                     /\ resolverCalls' = resolverCalls \cup {idx}
                     /\ UNCHANGED passedFiles
                ELSE /\ errorCount' = errorCount + 1
                     /\ errors' = Append(errors,
                          SchemaFailureRecord(idx, schemaType, outs))
                     /\ validatorCalls' = validatorCalls \cup {idx}
                     /\ resolverCalls' = resolverCalls \cup {idx}
                     /\ UNCHANGED passedFiles
  /\ UNCHANGED <<resolverVars, scriptVars, run, firstRun, tree, pc, jsonFileCount, validationsPassed,
                 validationsFailed, enabled, schemaValidationStats, exitCode,
                 checksFailed, syntaxFailures>>

\* validateJsonAgainstSchema: one JSON file of the traversal
SchemaVisit ==
  /\ pc = "schema"
  /\ idx <= Len(tree)
  /\ tree[idx].io # "list"
  /\ LET entry == tree[idx]
         f == [readable |-> TRUE, text |-> entry.text]
         validator == FirstMatching(RelativeParts(entry.dirs))
         schemaType == validator.type
         parsed == ParseOk(entry.text)
         outs == ErrorMessages(entry.report, f)
     IN /\ filesVisited' = filesVisited + 1
        /\ idx' = idx + 1
        /\ IF ~validator.found
           THEN UNCHANGED <<validatedCount, errorCount, errors, passedFiles,
                            validatorCalls, resolverCalls>>
           ELSE
             /\ validatedCount' = validatedCount + 1
             /\ IF entry.io = "read"
                THEN /\ errorCount' = errorCount + 1
                     /\ errors' = Append(errors,
                          CaughtRecord(idx, schemaType, ReadFailed))
                     /\ UNCHANGED <<passedFiles, validatorCalls, resolverCalls>>
                ELSE IF ~parsed
                THEN /\ errorCount' = errorCount + 1
                     /\ errors' = Append(errors,
                          CaughtRecord(idx, schemaType, entry.parseMessage))
                     /\ UNCHANGED <<passedFiles, validatorCalls, resolverCalls>>
                ELSE IF ~validator.compiled
                THEN /\ errorCount' = errorCount + 1
                     /\ errors' = Append(errors,
                          CaughtRecord(idx, schemaType, NotAFunction))
                     /\ UNCHANGED <<passedFiles, validatorCalls, resolverCalls>>
                ELSE IF entry.report = <<>>
                THEN /\ passedFiles' = Append(passedFiles,
                          [file |-> idx, type |-> schemaType])
                     /\ validatorCalls' = validatorCalls \cup {idx}
                     /\ UNCHANGED <<errorCount, errors, resolverCalls>>
                ELSE IF AnyThrew(outs)
                THEN /\ errorCount' = errorCount + 2
                     /\ errors' = Append(errors,
                          CaughtRecord(idx, schemaType, CannotReadIncludes))
                     /\ validatorCalls' = validatorCalls \cup {idx}
                     /\ resolverCalls' = resolverCalls \cup {idx}
                     /\ UNCHANGED passedFiles
                ELSE /\ errorCount' = errorCount + 1
                     /\ errors' = Append(errors,
                          SchemaFailureRecord(idx, schemaType, outs))
                     /\ validatorCalls' = validatorCalls \cup {idx}
                     /\ resolverCalls' = resolverCalls \cup {idx}
                     /\ UNCHANGED passedFiles
  /\ UNCHANGED <<resolverVars, scriptVars, run, firstRun, tree, pc, jsonFileCount, validationsPassed,
                 validationsFailed, enabled, schemaValidationStats, exitCode,
                 checksFailed, syntaxFailures>>

\* validateJsonAgainstSchema on a sub-directory that cannot be listed:
\* fs.readdirSync throws, nothing between it and validate() catches, and the
\* validation fails before the statistics are written
SchemaListFails ==
  /\ pc = "schema"
  /\ idx <= Len(tree)
  /\ tree[idx].io = "list"
  /\ validationsFailed' = validationsFailed + 1
  /\ pc' = "rest"
  /\ UNCHANGED <<resolverVars, scriptVars, run, firstRun, tree, idx, jsonFileCount, validationsPassed,
                 enabled, validatedCount, errorCount, errors, passedFiles,
                 schemaValidationStats, exitCode, filesVisited, validatorCalls,
                 resolverCalls, checksFailed, syntaxFailures>>

\* validation 5b after the traversal, returning true whatever errorCount is
SchemaFinishNoThrow ==
  /\ pc = "schema"
  /\ idx > Len(tree)
  /\ schemaValidationStats' =
       [filesValidated |-> validatedCount, filesPassed |-> Len(passedFiles),
        filesFailed |-> errorCount]
  /\ validationsPassed' = validationsPassed + 1
  /\ pc' = "rest"
  /\ UNCHANGED <<resolverVars, scriptVars, run, firstRun, tree, idx, jsonFileCount, validationsFailed,
                 enabled, validatedCount, errorCount, errors, passedFiles,
                 exitCode, filesVisited, validatorCalls, resolverCalls,
                 checksFailed, syntaxFailures>>

\* validation 5b after the traversal: the statistics, then the throw
SchemaFinish ==
  /\ pc = "schema"
  /\ idx > Len(tree)
  /\ schemaValidationStats' =
       [filesValidated |-> validatedCount, filesPassed |-> Len(passedFiles),
        filesFailed |-> errorCount]
  /\ IF errorCount > 0
     THEN /\ validationsFailed' = validationsFailed + 1
          /\ UNCHANGED validationsPassed
     ELSE /\ validationsPassed' = validationsPassed + 1
          /\ UNCHANGED validationsFailed
  /\ pc' = "rest"
  /\ UNCHANGED <<resolverVars, scriptVars, run, firstRun, tree, idx, jsonFileCount, enabled, validatedCount,
                 errorCount, errors, passedFiles, exitCode, filesVisited,
                 validatorCalls, resolverCalls, checksFailed, syntaxFailures>>

\* validations 6, 7 and 8; validation 7 throws when package.json has no
\* files array
RunRemainingChecks ==
  /\ pc = "rest"
  /\ \E hasFilesArray \in BOOLEAN :
       IF hasFilesArray
       THEN /\ validationsPassed' = validationsPassed + 3
            /\ UNCHANGED <<validationsFailed, checksFailed>>
       ELSE /\ validationsPassed' = validationsPassed + 2
            /\ validationsFailed' = validationsFailed + 1
            /\ checksFailed' = checksFailed + 1
  /\ pc' = "exit"
  /\ UNCHANGED <<resolverVars, scriptVars, run, firstRun, tree, idx, jsonFileCount, enabled, validatedCount,
                 errorCount, errors, passedFiles, schemaValidationStats,
                 exitCode, filesVisited, validatorCalls, resolverCalls,
                 syntaxFailures>>

\* process.exit(1) or process.exit(0)
Exit ==
  /\ pc = "exit"
  /\ exitCode' = IF validationsFailed > 0 THEN 1 ELSE 0
  /\ pc' = "done"
  /\ UNCHANGED <<resolverVars, scriptVars, run, firstRun, tree, idx, jsonFileCount, validationsPassed,
                 validationsFailed, enabled, validatedCount, errorCount, errors,
                 passedFiles, schemaValidationStats, filesVisited,
                 validatorCalls, resolverCalls, checksFailed, syntaxFailures>>

Next ==
  \/ RunPackageChecks
  \/ SyntaxVisit
  \/ SyntaxRootFiles
  \/ SchemaStart
  \/ SchemaVisit
  \/ SchemaListFails
  \/ SchemaFinish
  \/ RunRemainingChecks
  \/ Exit

Spec == Init /\ [][Next]_vars

\* ------------------------------------------------- the program run twice
\* the trees of the runs that are repeated
TwiceEntries == {e \in Entries : e.dirs \in {<<>>, <<"Schemas">>}}

TwiceTrees == UNION {[1..n -> TwiceEntries] : n \in 0..MaxFiles}

InitTwice ==
  /\ ResolverIdle
  /\ tree \in TwiceTrees
  /\ RunStart
  /\ SlotsIdle
  /\ SetupIdle
  /\ SyncIdle

\* the program started again on the unchanged tree: the module-level state is
\* initialised as on load; validatedCount, errorCount, errors and passedFiles
\* are locals of the validation callback and have no value of their own until
\* their declarations run
Rerun ==
  /\ pc = "done"
  /\ run = 1
  /\ run' = 2
  /\ firstRun' = Summary
  /\ pc' = "checks"
  /\ idx' = 1
  /\ jsonFileCount' = 0
  /\ validationsPassed' = 0
  /\ validationsFailed' = 0
  /\ enabled' = FALSE
  /\ schemaValidationStats' = NoStats
  /\ exitCode' = 0 - 1
  /\ filesVisited' = 0
  /\ validatorCalls' = {}
  /\ resolverCalls' = {}
  /\ checksFailed' = 0
  /\ syntaxFailures' = 0
  /\ UNCHANGED <<resolverVars, scriptVars, tree, validatedCount, errorCount,
                 errors, passedFiles>>

NextTwice == Next \/ Rerun

SpecTwice == InitTwice /\ [][NextTwice]_vars

\* ------------------------------------------------------------- setup.js
\* str.trim()
RECURSIVE TrimStart(_)
TrimStart(str) ==
  IF str # <<>> /\ Head(str) \in Whitespace THEN TrimStart(Tail(str)) ELSE str

RECURSIVE TrimEnd(_)
TrimEnd(str) ==
  IF str # <<>> /\ str[Len(str)] \in Whitespace
  THEN TrimEnd(SubSeq(str, 1, Len(str) - 1)) ELSE str

Trim(str) == TrimEnd(TrimStart(str))

\* validateDomainName without the format test
validateDomainNameNoFormat(name) == name # <<>>

\* validateDomainName: not empty, and /^[a-zA-Z0-9_-]+$/
validateDomainName(name) ==
  /\ name # <<>>
  /\ \A i \in 1..Len(name) : name[i] \in WordChars \cup {"-"}

\* isNonInteractive(), which only the second copy of setup.js has
isNonInteractive(io) ==
  ~io.isTTY \/ io.CI = "true" \/ io.NPM_CONFIG_INTERACTIVE = "false"

\* const templateDir = 'touch', which is also the placeholder in the files
templateDir == <<"t", "o", "u", "c", "h">>

\* the strings given as argument, environment variable or answer
RawNames ==
  {<<>>, <<SP>>, <<SP, "a", "b", SP>>, <<"a", SP, "b">>, <<"a", "/", "b">>,
   <<"a", "-", "_", "1">>, templateDir}

Stdios ==
  {Terminal, [Terminal EXCEPT !.isTTY = FALSE], [Terminal EXCEPT !.CI = "true"],
   [Terminal EXCEPT !.NPM_CONFIG_INTERACTIVE = "false"]}

InitSetup ==
  /\ ResolverIdle
  /\ tree = <<>>
  /\ RunStart
  /\ SlotsIdle
  /\ SyncIdle
  /\ variant \in {"setup.js", "part_001"}
  /\ argv \in {<<>>} \cup {<<n>> : n \in RawNames}
  /\ envDomainName \in {NoName} \cup {Name(n) : n \in RawNames}
  /\ stdio \in Stdios
  /\ answer \in RawNames
  /\ setupPc = "start"
  /\ domainName = NoName
  /\ source = "none"
  /\ replacedWith = NoName
  /\ renamedTo = NoName
  /\ setupExit = 0 - 1

\* setup() up to getDomainName: installed as a dependency, already set up or
\* without the touch directory it returns and nothing is changed
SetupChecks ==
  /\ setupPc = "start"
  /\ \E proceed \in BOOLEAN :
       IF proceed
       THEN setupPc' = "getDomainName" /\ UNCHANGED setupExit
       ELSE setupPc' = "exited" /\ setupExit' = 0
  /\ UNCHANGED <<variant, argv, envDomainName, stdio, answer, domainName, source,
                 replacedWith, renamedTo>>
  /\ UNCHANGED <<resolverVars, runVars, syncVars, slotVars>>

\* getDomainName() up to the prompt, and the skip of setup() on a null name
GetDomainName ==
  /\ setupPc = "getDomainName"
  /\ IF Len(argv) > 0
     THEN /\ source' = "argv"
          /\ IF validateDomainName(Trim(argv[1]))
             THEN /\ domainName' = Name(Trim(argv[1]))
                  /\ setupPc' = "replace"
                  /\ UNCHANGED setupExit
             ELSE /\ setupPc' = "exited"
                  /\ setupExit' = 1
                  /\ UNCHANGED domainName
     ELSE IF envDomainName.defined /\ envDomainName.value # <<>>
     THEN /\ source' = "env"
          /\ IF validateDomainName(Trim(envDomainName.value))
             THEN /\ domainName' = Name(Trim(envDomainName.value))
                  /\ setupPc' = "replace"
                  /\ UNCHANGED setupExit
             ELSE /\ setupPc' = "exited"
                  /\ setupExit' = 1
                  /\ UNCHANGED domainName
     ELSE IF variant = "part_001" /\ isNonInteractive(stdio)
     THEN /\ source' = "skipped"
          /\ setupPc' = "exited"
          /\ setupExit' = 0
          /\ UNCHANGED domainName
     ELSE /\ source' = "prompt"
          /\ setupPc' = "prompt"
          /\ UNCHANGED <<domainName, setupExit>>
  /\ UNCHANGED <<variant, argv, envDomainName, stdio, answer, replacedWith,
                 renamedTo>>
  /\ UNCHANGED <<resolverVars, runVars, syncVars, slotVars>>

\* promptDomainName(): the callback of rl.question
PromptAnswered ==
  /\ setupPc = "prompt"
  /\ IF validateDomainName(Trim(answer))
     THEN /\ domainName' = Name(Trim(answer))
          /\ setupPc' = "replace"
          /\ UNCHANGED setupExit
     ELSE /\ setupPc' = "exited"
          /\ setupExit' = 1
          /\ UNCHANGED domainName
  /\ UNCHANGED <<variant, argv, envDomainName, stdio, answer, source,
                 replacedWith, renamedTo>>
  /\ UNCHANGED <<resolverVars, runVars, syncVars, slotVars>>

\* replaceInDirectory('.', domainName, processedFiles): replaceInFile writes a
\* file when the replacements change its content, i.e. when a file holds the
\* placeholder and the name is not the placeholder itself
ReplaceInDirectory ==
  /\ setupPc = "replace"
  /\ \E holdsPlaceholder \in BOOLEAN :
       replacedWith' = IF holdsPlaceholder /\ domainName.value # templateDir
                       THEN domainName ELSE NoName
  /\ setupPc' = "rename"
  /\ UNCHANGED <<variant, argv, envDomainName, stdio, answer, domainName, source,
                 renamedTo, setupExit>>
  /\ UNCHANGED <<resolverVars, runVars, syncVars, slotVars>>

\* renameDomainDirectory(domainName): exit 1 when the target exists, as it
\* does when the name is the name of the template directory
RenameDomainDirectory ==
  /\ setupPc = "rename"
  /\ \E targetExists \in BOOLEAN :
       /\ domainName.value = templateDir => targetExists
       /\ IF targetExists
          THEN setupExit' = 1 /\ UNCHANGED renamedTo
          ELSE setupExit' = 0 /\ renamedTo' = domainName
  /\ setupPc' = "exited"
  /\ UNCHANGED <<variant, argv, envDomainName, stdio, answer, domainName, source,
                 replacedWith>>
  /\ UNCHANGED <<resolverVars, runVars, syncVars, slotVars>>

NextSetup ==
  \/ SetupChecks
  \/ GetDomainName
  \/ PromptAnswered
  \/ ReplaceInDirectory
  \/ RenameDomainDirectory

SpecSetup == InitSetup /\ [][NextSetup]_vars

\* ------------------------------------------------ sync-schema-version.js
schemaPackage == <<"@burgan-tech/vnext-schema">>

dependencies == <<"dependencies">>

\* a value read from vnext.config.json: its type and what a template literal
\* makes of it
Undefined == [type |-> "undefined", str |-> <<"undefined">>]

StringValue(str) == [type |-> "string", str |-> str]

NumberValue(str) == [type |-> "number", str |-> str]

\* !schemaVersion
IsFalsy(v) ==
  \/ v.type = "undefined"
  \/ v.type = "string" /\ v.str = <<>>
  \/ v.type = "number" /\ v.str = <<"0">>

\* the version range without the caret
versionRangeExact(v) == v.str

\* `^${schemaVersion}`
versionRange(v) == <<"^">> \o v.str

\* !value for a parsed JSON value, or for undefined (a node of type "none")
IsFalsyNode(node) ==
  \/ node.t \in {"none", "null"}
  \/ node.t = "string" /\ node.s = <<>>
  \/ node.t = "number" /\ node.s = <<"0">>
  \/ node.t = "boolean" /\ node.s = <<"f", "a", "l", "s", "e">>

StringNode(str) ==
  [t |-> "string", line |-> 0, members |-> <<>>, elems |-> <<>>, s |-> str]

EmptyObject ==
  [t |-> "object", line |-> 0, members |-> <<>>, elems |-> <<>>, s |-> <<>>]

\* object[key]
GetProperty(node, key) ==
  IF HasMember(node, key) THEN MemberOf(node, key).val ELSE NoNode

\* object[key] = val: an existing property keeps its place
SetProperty(node, key, val) ==
  IF HasMember(node, key)
  THEN [node EXCEPT !.members =
          [i \in DOMAIN node.members |->
             IF node.members[i].key = key
             THEN [node.members[i] EXCEPT !.val = val]
             ELSE node.members[i]]]
  ELSE [node EXCEPT !.members =
          Append(node.members, [key |-> key, keyLine |-> 0, val |-> val])]

\* the own properties of a parsed object from member i on, each key once, at
\* its first place and with its last value
RECURSIVE PropertiesFrom(_, _)
PropertiesFrom(node, i) ==
  IF i > Len(node.members) THEN <<>>
  ELSE (IF \E k \in 1..(i - 1) : node.members[k].key = node.members[i].key
        THEN <<>>
        ELSE <<[key |-> node.members[i].key,
                val |-> MemberOf(node, node.members[i].key).val]>>)
       \o PropertiesFrom(node, i + 1)

Indent(depth) == [k \in 1..(2 * depth) |-> SP]

RECURSIVE EscapeJSON(_)
EscapeJSON(str) ==
  IF str = <<>> THEN <<>>
  ELSE (IF Head(str) \in {DQ, BS} THEN <<BS, Head(str)>>
        ELSE IF Head(str) = NL THEN <<BS, "n">>
        ELSE <<Head(str)>>)
       \o EscapeJSON(Tail(str))

RECURSIVE JSONstringify(_, _)
RECURSIVE StringifyProperties(_, _)
RECURSIVE StringifyElements(_, _)

StringifyProperties(props, depth) ==
  Indent(depth) \o <<DQ>> \o EscapeJSON(props[1].key) \o <<DQ, ":", SP>>
    \o JSONstringify(props[1].val, depth)
    \o (IF Len(props) = 1 THEN <<>>
        ELSE <<",", NL>> \o StringifyProperties(Tail(props), depth))

StringifyElements(elems, depth) ==
  Indent(depth) \o JSONstringify(elems[1], depth)
    \o (IF Len(elems) = 1 THEN <<>>
        ELSE <<",", NL>> \o StringifyElements(Tail(elems), depth))

\* JSON.stringify(value, null, 2) of a parsed value nested depth deep
JSONstringify(node, depth) ==
  IF node.t = "object"
  THEN IF node.members = <<>> THEN <<"{", "}">>
       ELSE <<"{", NL>> \o StringifyProperties(PropertiesFrom(node, 1), depth + 1)
            \o <<NL>> \o Indent(depth) \o <<"}">>
  ELSE IF node.t = "array"
  THEN IF node.elems = <<>> THEN <<"[", "]">>
       ELSE <<"[", NL>> \o StringifyElements(node.elems, depth + 1)
            \o <<NL>> \o Indent(depth) \o <<"]">>
  ELSE IF node.t = "string" THEN <<DQ>> \o EscapeJSON(node.s) \o <<DQ>>
  ELSE node.s

\* the files the script finds
\* {"name": "x"}
PackageBare == <<"{", DQ, "name", DQ, ":", SP, DQ, "x", DQ, "}">>

\* {"dependencies": null}
PackageNullDeps == <<"{", DQ, "dependencies", DQ, ":", SP, "n", "u", "l", "l", "}">>

\* {"dependencies": {}}
PackageNoDeps == <<"{", DQ, "dependencies", DQ, ":", SP, "{", "}", "}">>

\* {"dependencies": {"@burgan-tech/vnext-schema": "^1.0.0"}, "name": "x"}
PackageSynced ==
  <<"{", DQ, "dependencies", DQ, ":", SP, "{", DQ, "@burgan-tech/vnext-schema",
    DQ, ":", SP, DQ, "^", "1.0.0", DQ, "}", ",", SP, DQ, "name", DQ, ":", SP,
    DQ, "x", DQ, "}">>

\* {"dependencies": {"ajv": "^8", "@burgan-tech/vnext-schema": "1.0.0"}}
PackageExact ==
  <<"{", DQ, "dependencies", DQ, ":", SP, "{", DQ, "ajv", DQ, ":", SP, DQ, "^",
    "8", DQ, ",", SP, DQ, "@burgan-tech/vnext-schema", DQ, ":", SP, DQ, "1.0.0",
    DQ, "}", "}">>

\* {"dependencies":
PackageTruncated == <<"{", DQ, "dependencies", DQ, ":">>

\* null
PackageNull == <<"n", "u", "l", "l">>

PackageTexts ==
  {PackageBare, PackageNullDeps, PackageNoDeps, PackageSynced, PackageExact,
   PackageTruncated, PackageNull}

Configs ==
  {NoConfig}
    \cup {[readable |-> TRUE, schemaVersion |-> v] :
            v \in {Undefined, StringValue(<<>>), StringValue(<<"1.0.0">>),
                   StringValue(<<"2.0.0">>), NumberValue(<<"1">>),
                   NumberValue(<<"0">>)}}

InitSync ==
  /\ ResolverIdle
  /\ tree = <<>>
  /\ RunStart
  /\ SlotsIdle
  /\ SetupIdle
  /\ vnextConfig \in Configs
  /\ packageJsonText \in PackageTexts
  /\ writable \in BOOLEAN
  /\ syncPc = "start"
  /\ schemaVersion = Undefined
  /\ syncExit = 0 - 1
  /\ syncRun = 1
  /\ writes = 0

\* the script up to package.json: vnext.config.json is read and parsed, and
\* the script ends with code 1 when that throws or schemaVersion is falsy
SyncReadConfig ==
  /\ syncPc = "start"
  /\ IF ~vnextConfig.readable
     THEN /\ syncPc' = "exited"
          /\ syncExit' = 1
          /\ UNCHANGED schemaVersion
     ELSE /\ schemaVersion' = vnextConfig.schemaVersion
          /\ IF IsFalsy(vnextConfig.schemaVersion)
             THEN syncPc' = "exited" /\ syncExit' = 1
             ELSE syncPc' = "package" /\ UNCHANGED syncExit
  /\ UNCHANGED <<vnextConfig, packageJsonText, writable, syncRun, writes>>
  /\ UNCHANGED <<resolverVars, runVars, setupVars, slotVars>>

\* the rest of the script: package.json is parsed, the dependency is set and
\* the file written when the dependency differs from the version range
SyncUpdatePackage ==
  /\ syncPc = "package"
  /\ LET packageJson == JSONparse(packageJsonText)
         withDeps == IF IsFalsyNode(GetProperty(packageJson, dependencies))
                     THEN SetProperty(packageJson, dependencies, EmptyObject)
                     ELSE packageJson
         deps == GetProperty(withDeps, dependencies)
         currentVersion == GetProperty(deps, schemaPackage)
         range == versionRange(schemaVersion)
         updated == SetProperty(withDeps, dependencies,
                      SetProperty(deps, schemaPackage, StringNode(range)))
     IN IF packageJson.t # "object"
        THEN /\ syncExit' = 1
             /\ UNCHANGED <<packageJsonText, writes>>
        ELSE IF currentVersion.t = "string" /\ currentVersion.s = range
        THEN /\ syncExit' = 0
             /\ UNCHANGED <<packageJsonText, writes>>
        ELSE IF writable
        THEN /\ packageJsonText' = JSONstringify(updated, 0) \o <<NL>>
             /\ writes' = writes + 1
             /\ syncExit' = 0
        ELSE /\ syncExit' = 1
             /\ UNCHANGED <<packageJsonText, writes>>
  /\ syncPc' = "exited"
  /\ UNCHANGED <<vnextConfig, writable, schemaVersion, syncRun>>
  /\ UNCHANGED <<resolverVars, runVars, setupVars, slotVars>>

\* the script started again on the files the first run left
SyncAgain ==
  /\ syncPc = "exited"
  /\ syncExit = 0
  /\ syncRun = 1
  /\ syncRun' = 2
  /\ syncPc' = "start"
  /\ syncExit' = 0 - 1
  /\ schemaVersion' = Undefined
  /\ writes' = 0
  /\ UNCHANGED <<vnextConfig, packageJsonText, writable>>
  /\ UNCHANGED <<resolverVars, runVars, setupVars, slotVars>>

NextSync ==
  \/ SyncReadConfig
  \/ SyncUpdatePackage
  \/ SyncAgain

SpecSync == InitSync /\ [][NextSync]_vars

\* =================================================================== claims
\* the line of the key (property step) or of the opening token (index step)
\* of the value the path addresses in the parsed document; 0 when the path
\* does not exist in it
RECURSIVE TargetLine(_, _, _)
TargetLine(current, parts, i) ==
  LET part == parts[i] IN
  IF current.t = "object" /\ HasMember(current, part)
  THEN IF i = Len(parts) THEN MemberOf(current, part).keyLine
       ELSE TargetLine(MemberOf(current, part).val, parts, i + 1)
  ELSE IF current.t = "array" /\ IsIndex(part) /\ parseInt(part) < Len(current.elems)
  THEN IF i = Len(parts) THEN current.elems[parseInt(part) + 1].line
       ELSE TargetLine(current.elems[parseInt(part) + 1], parts, i + 1)
  ELSE 0

ErrParts == SplitPath(ErrPath(err))

\* the resolver was given a document that parses and a path that exists in it
PathExistsInDocument ==
  /\ file.readable
  /\ err.defined
  /\ ParseOk(file.text)
  /\ Len(ErrParts) > 0
  /\ TargetLine(JSONparse(file.text), ErrParts, 1) > 0

Target == TargetLine(JSONparse(file.text), ErrParts, 1)

\* C1: for every document and every path that exists in it, both resolvers
\* return the line holding the key, or the opening token, of the value the
\* last step addresses, also when a key name of the path occurs elsewhere.
C1_ResolvesToTargetLine ==
  (rpc = "walked" /\ PathExistsInDocument)
    => (lineNumber = Target /\ pathLine = Target)

\* C2: the resolvers are total: whatever the file (valid, garbage, unbalanced,
\* dangling escape, unreadable) and the error object or path, each returns a
\* line number of the file or null, and no exception reaches the caller.
LineOrNull(n) == n = null \/ n \in 1..Len(Split(file.text, NL))

C2_ResolverTotal ==
  /\ rpc \in {"scanned", "walked", "formatted"} => LineOrNull(lineNumber)
  /\ rpc \in {"walked", "formatted"} => LineOrNull(pathLine)

C2_Witness ==
  /\ rpc = "walked"
  /\ ~file.readable
  /\ lineNumber = null
  /\ pathLine = null

C4_TraversalNeverStops ==
  /\ pc \notin {"checks", "syntax"} => jsonFileCount >= Len(tree)
  /\ (pc \in {"rest", "exit", "done"} /\ enabled) => filesVisited = Len(tree)

Classified(i) == FirstMatching(RelativeParts(tree[i].dirs)).found

RecordsOf(i) == {k \in 1..Len(errors) : errors[k].file = i}

PassesOf(i) == {k \in 1..Len(passedFiles) : passedFiles[k].file = i}

\* C5: a classified file whose text fails to parse gets exactly one failure
\* record, with the line and column its parser message names (none when the
\* message names no line); neither the validator nor the resolver runs on it.
C5_ParseFailureRecord ==
  \A i \in 1..filesVisited :
    (Classified(i) /\ ~ParseOk(tree[i].text)) =>
      /\ Cardinality(RecordsOf(i)) = 1
      /\ PassesOf(i) = {}
      /\ \A k \in RecordsOf(i) :
           /\ errors[k].caught
           /\ tree[i].parseMessage = SyntaxErrorWithLine =>
                errors[k].location =
                  [present |-> TRUE, line |-> 1, hasColumn |-> TRUE, column |-> 7]
           /\ tree[i].parseMessage = SyntaxErrorPlain =>
                ~errors[k].location.present
      /\ i \notin validatorCalls
      /\ i \notin resolverCalls

C5_Witness ==
  \E i \in 1..filesVisited :
    /\ Classified(i)
    /\ ~ParseOk(tree[i].text)
    /\ tree[i].parseMessage = SyntaxErrorWithLine
    /\ \E k \in RecordsOf(i) : errors[k].location.line = 1

\* a missing-required error at the root path naming a property whose quoted
\* name followed by a colon occurs in the document
RootRequiredCase ==
  /\ rpc = "formatted"
  /\ file.readable
  /\ ErrPath(err) = <<>>
  /\ err.keyword = "required"
  /\ MessageIncludes(err.message, "must have required property")
  /\ \E n \in 1..Len(Split(file.text, NL)) :
       MatchesKeyColon(Split(file.text, NL)[n], err.params.missingProperty)

FirstKeyLine ==
  CHOOSE n \in 1..Len(Split(file.text, NL)) :
    /\ MatchesKeyColon(Split(file.text, NL)[n], err.params.missingProperty)
    /\ \A k \in 1..(n - 1) :
         ~MatchesKeyColon(Split(file.text, NL)[k], err.params.missingProperty)

\* the body names the property; for the empty name the message of the
\* validator is kept
RequiredBody ==
  IF err.params.missingProperty = <<>> THEN err.message
  ELSE <<"must have required property", " ">> \o Quoted(err.params.missingProperty)

RequiredBodyAsStated ==
  <<"must have required property", " ">> \o Quoted(err.params.missingProperty)

\* C6 as stated: the diagnostic of a root-level missing-required error is
\* `must have required property "p" (line n)`, n the first line with "p":
C6_RootRequiredHasLine ==
  RootRequiredCase =>
    Plain(formatted.text)
      = RequiredBodyAsStated \o <<" ", "(line ">> \o NumberToString(FirstKeyLine) \o <<")">>

\* C6 amended: the diagnostic of a root-level missing-required error is
\* `must have required property "p"` with no line suffix (for the empty
\* name, the message of the validator with no line suffix).
C6_RootRequiredHasNoLine ==
  RootRequiredCase => (~formatted.threw /\ Plain(formatted.text) = RequiredBody)

C6_Witness ==
  RootRequiredCase /\ FirstKeyLine = 1 /\ err.params.missingProperty = <<"a">>

\* C7: a path whose last step is an array index that exists in the document
\* is never resolved to absent: both resolvers return the line on which that
\* element opens ({"a": {"b": [1,2,3]}} and /a/b/1 give line 1).
C7_IndexStepResolved ==
  (rpc = "walked" /\ PathExistsInDocument /\ IsIndex(ErrParts[Len(ErrParts)]))
    => /\ lineNumber # null
       /\ pathLine # null
       /\ lineNumber = Target
       /\ pathLine = Target

InTable(d) == d \in DOMAIN directoryToSchemaType

MappedAncestors(i) == {k \in 1..Len(tree[i].dirs) : InTable(tree[i].dirs[k])}

\* C8: a JSON file none of whose ancestor directories has an entry in the
\* directory-to-schema-type table is never counted in filesValidated and has
\* neither a passed nor a failed record, whatever the directories are called.
C8_UnmappedNeverCounted ==
  /\ \A i \in 1..filesVisited :
       MappedAncestors(i) = {} => (RecordsOf(i) = {} /\ PassesOf(i) = {})
  /\ validatedCount = Cardinality({i \in 1..filesVisited : MappedAncestors(i) # {}})

SeveralMapped(i) == Cardinality(MappedAncestors(i)) >= 2

TypeOfRecords(i) ==
  {errors[k].type : k \in RecordsOf(i)} \cup {passedFiles[k].type : k \in PassesOf(i)}

NearestMapped(i) ==
  CHOOSE k \in MappedAncestors(i) : \A j \in MappedAncestors(i) : j <= k

OutermostMapped(i) ==
  CHOOSE k \in MappedAncestors(i) : \A j \in MappedAncestors(i) : k <= j

C10_ExitZeroIffNoFileFailed ==
  pc = "done" => (exitCode = 0 <=> (syntaxFailures = 0 /\ errorCount = 0))

\* C10 amended: the exit code is 0 exactly when no file failed the syntax
\* pass, no file failed the schema pass and no other validation of the run
\* failed; it is non-zero whenever a file failed either pass.
C10_ExitZeroIffNothingFailed ==
  pc = "done" =>
    /\ exitCode = 0 <=> (syntaxFailures = 0 /\ errorCount = 0 /\ checksFailed = 0)
    /\ (syntaxFailures > 0 \/ errorCount > 0) => exitCode = 1

C10_Witness ==
  /\ pc = "done"
  /\ exitCode = 1
  /\ syntaxFailures = 0
  /\ errorCount > 0
  /\ checksFailed = 0

\* ------------------------------------------------------------ C11 to C13
\* the body the formatter is to render for the error, by the keyword that
\* failed
BodyByKind ==
  IF err.keyword = "required"
  THEN <<"must have required property", " ">> \o Quoted(err.params.missingProperty)
  ELSE IF err.keyword = "additionalProperties"
  THEN <<"must NOT have additional property", " ">>
       \o Quoted(err.params.additionalProperty)
  ELSE err.message

LineSuffix ==
  IF lineNumber = null THEN <<>>
  ELSE <<" ", "(line ">> \o NumberToString(lineNumber) \o <<")">>

\* C11: formatErrorMessage renders `must have required property "<name>"` for
\* a missing-required error, `must NOT have additional property "<name>"` for
\* an additional-property error and otherwise the message of the validator
\* unchanged, followed by ` (line n)` exactly when the resolver returned n.
C11_ThreeBodiesAndSuffix ==
  (rpc \in {"formatted", "output"} /\ err.hasMessage)
    => /\ ~formatted.threw
       /\ Plain(formatted.text) = BodyByKind \o LineSuffix

\* the formatter replaced the message of the validator
Rewritten ==
  SubSeq(Plain(formatted.text), 1, Len(err.message)) # err.message

Annotated == MessageIncludes(output.text, "JSON.stringify(err.params)")

\* C12: the params annotation is appended exactly when the error carries
\* params that the rendered message does not show: omitted when the message
\* was rewritten to name the property, present whenever the message of the
\* validator was kept and the error has params.
C12_ParamsAnnotation ==
  (rpc = "output" /\ ~output.threw)
    => (Annotated <=> (err.params.present /\ ~Rewritten))

RootAdditionalCase ==
  /\ rpc \in {"scanned", "walked", "formatted", "output"}
  /\ file.readable
  /\ ErrPath(err) = <<>>
  /\ err.keyword = "additionalProperties"

KeyLines ==
  {n \in 1..Len(Split(file.text, NL)) :
     MatchesKeyColon(Split(file.text, NL)[n], err.params.additionalProperty)}

\* C13: for an error with an empty path and params.additionalProperty = p,
\* findErrorLineNumber returns the smallest line whose text contains "p"
\* followed, after optional whitespace, by a colon, and absent when no line
\* matches.
C13_RootAdditionalFirstLine ==
  RootAdditionalCase =>
    IF KeyLines = {} THEN lineNumber = null
    ELSE /\ lineNumber \in KeyLines
         /\ \A n \in KeyLines : lineNumber <= n

\* ------------------------------------------------------------ C14 to C17
TraversalOver == pc \in {"rest", "exit", "done"} /\ enabled

FileOf(i) == [readable |-> TRUE, text |-> tree[i].text]

\* the validator ran on the file and reported errors
FailsSchema(i) ==
  /\ FirstMatching(RelativeParts(tree[i].dirs)).compiled
  /\ tree[i].io = "ok"
  /\ ParseOk(tree[i].text)
  /\ tree[i].report # <<>>

C16_IoFailureRecorded ==
  TraversalOver =>
    /\ filesVisited = Cardinality({i \in 1..Len(tree) : tree[i].io # "list"})
    /\ \A i \in 1..Len(tree) :
         (tree[i].io = "read" /\ Classified(i)) => Cardinality(RecordsOf(i)) = 1
    /\ schemaValidationStats.filesValidated = validatedCount
    /\ schemaValidationStats.filesFailed = errorCount

\* what the report holds for file i, the name of the file left out
FailuresOf(i) ==
  [k \in RecordsOf(i) |->
     [type |-> errors[k].type, caught |-> errors[k].caught,
      message |-> errors[k].message, location |-> errors[k].location]]

RecordedFailures(i) == {FailuresOf(i)[k] : k \in RecordsOf(i)}

RecordedPasses(i) == {passedFiles[k].type : k \in PassesOf(i)}

\* what the text, the directories and the validator's answer of one file
\* determine for it
ExpectedFailures(e) ==
  LET v == FirstMatching(RelativeParts(e.dirs))
      f == [readable |-> TRUE, text |-> e.text]
      type == IF v.type = "undefined" THEN "unknown" ELSE v.type
      thrown(m) == {[type |-> type, caught |-> TRUE, message |-> <<m>>,
                     location |-> parseErrorLocation(m)]}
  IN IF ~v.found THEN {}
     ELSE IF e.io = "read" THEN thrown(ReadFailed)
     ELSE IF ~ParseOk(e.text) THEN thrown(e.parseMessage)
     ELSE IF ~v.compiled THEN thrown(NotAFunction)
     ELSE IF e.report = <<>> THEN {}
     ELSE IF \E j \in 1..Len(e.report) : ~e.report[j].hasMessage
     THEN thrown(CannotReadIncludes)
     ELSE {[type |-> type, caught |-> FALSE,
            message |-> [j \in 1..Len(e.report) |-> ErrorOutput(e.report[j], f).text],
            location |-> NoLocation]}

ExpectedPasses(e) ==
  LET v == FirstMatching(RelativeParts(e.dirs))
  IN IF v.compiled /\ e.io = "ok" /\ ParseOk(e.text) /\ e.report = <<>>
     THEN {v.type} ELSE {}

\* C17: the record of a file depends only on its own text and classification:
\* whatever the other files of the tree are, failing ones included, a visited
\* file has the record its own entry determines, once, and two files with the
\* same entry have the same record.
C17_RecordDependsOnOwnFile ==
  \A i \in 1..filesVisited :
    /\ RecordedFailures(i) = ExpectedFailures(tree[i])
    /\ RecordedPasses(i) = ExpectedPasses(tree[i])
    /\ Cardinality(RecordsOf(i)) + Cardinality(PassesOf(i)) <= 1
    /\ \A j \in 1..filesVisited :
         tree[i] = tree[j] =>
           /\ RecordedFailures(i) = RecordedFailures(j)
           /\ RecordedPasses(i) = RecordedPasses(j)

C17_Witness ==
  /\ filesVisited = 2
  /\ tree[1].report = <<ErrNoMessage>>
  /\ tree[2].report = <<ErrAt(PathBA), ErrRequired(<<"a">>)>>
  /\ tree[2].dirs = <<"Schemas">>
  /\ \E k \in RecordsOf(2) : Len(errors[k].message) = 2

NameStage == source \in {"argv", "env", "prompt", "skipped"}

Answered == setupPc \in {"replace", "rename", "exited"}

NothingModified == ~replacedWith.defined /\ ~renamedTo.defined

RejectedBeforeAnyChange ==
  setupPc = "exited" /\ setupExit = 1 /\ NothingModified

\* the name of the highest source that is given, an environment variable that
\* is set counting as given
GivenAsStated ==
  IF Len(argv) > 0 THEN [from |-> "argv", name |-> Trim(argv[1])]
  ELSE IF envDomainName.defined
  THEN [from |-> "env", name |-> Trim(envDomainName.value)]
  ELSE [from |-> "prompt", name |-> Trim(answer)]

\* the same, an environment variable that is unset or empty counting as not
\* given
Given ==
  IF Len(argv) > 0 THEN [from |-> "argv", name |-> Trim(argv[1])]
  ELSE IF envDomainName.defined /\ envDomainName.value # <<>>
  THEN [from |-> "env", name |-> Trim(envDomainName.value)]
  ELSE [from |-> "prompt", name |-> Trim(answer)]

IsDomainName(name) ==
  name # <<>> /\ \A i \in 1..Len(name) : name[i] \in WordChars \cup {"-"}

SourceRule(g) ==
  /\ NameStage =>
       \/ source = g.from
       \/ g.from = "prompt" /\ source = "skipped"
            /\ variant = "part_001" /\ isNonInteractive(stdio)
  /\ replacedWith.defined => (replacedWith.value = g.name /\ IsDomainName(g.name))
  /\ renamedTo.defined => (renamedTo.value = g.name /\ IsDomainName(g.name))
  /\ (NameStage /\ ~IsDomainName(g.name) /\ source # "skipped"
        /\ (g.from = "prompt" => Answered))
       => RejectedBeforeAnyChange

\* C19 as stated: the name is the first argument when one is given, otherwise
\* DOMAIN_NAME, otherwise the answer to the prompt (or setup is skipped in
\* non-interactive mode); a name that is empty or has a character outside
\* [a-zA-Z0-9_-] is never used: exit code 1 before any file is modified, with
\* no fall back to a lower source.
C19_InvalidNameRejected == SourceRule(GivenAsStated)

\* C19 amended: as stated, with a DOMAIN_NAME that is unset or the empty
\* string counting as not given.
C19_InvalidGivenNameRejected == SourceRule(Given)

C19_Witness ==
  /\ argv = <<>>
  /\ source = "env"
  /\ envDomainName.value = <<"a", "/", "b">>
  /\ answer = <<"a", "-", "_", "1">>
  /\ RejectedBeforeAnyChange

\* ------------------------------------------------------------------- C20
\* the dependency on the schema package that package.json on disk declares
DependencyOnDisk ==
  GetProperty(GetProperty(JSONparse(packageJsonText), dependencies), schemaPackage)

RECURSIVE ConsumedByEscape(_, _)
ConsumedByEscape(read, p) ==
  p > 1 /\ read[p - 1] = BS /\ ~ConsumedByEscape(read, p - 1)

\* the quotes among the first n characters that no escape consumes
QuotesUpTo(read, n) ==
  {p \in 1..n : read[p] = DQ /\ ~ConsumedByEscape(read, p)}

\* after n characters the text is inside a string literal
InsideString(read, n) == Cardinality(QuotesUpTo(read, n)) % 2 = 1

\* how many times c was read outside a string and not consumed by an escape
CountOutside(read, c) ==
  Cardinality({p \in 1..Len(read) :
                 /\ read[p] = c
                 /\ ~ConsumedByEscape(read, p)
                 /\ ~InsideString(read, p - 1)})

\* C27: at every position of the scan braceDepth is the number of '{' minus
\* the number of '}' read so far outside string literals, bracketDepth the
\* same for '[' and ']', and inString tells whether an odd number of quotes
\* was read; a character inside a string or consumed by an escape counts for
\* none of them.
C27_DepthsCountOutsideStrings ==
  scanPc # "idle" =>
    /\ scan.braceDepth = CountOutside(scanRead, "{") - CountOutside(scanRead, "}")
    /\ scan.bracketDepth = CountOutside(scanRead, "[") - CountOutside(scanRead, "]")
    /\ scan.inString = InsideString(scanRead, Len(scanRead))

\* {"a\"}": "{" has been read: a quote consumed by an escape, and a closing
\* and an opening brace inside strings
C27_Witness ==
  /\ scanPc = "scanning"
  /\ scanRead = SubSeq(LineEscapes, 1, 11)
  /\ scan.inString
  /\ scan.braceDepth = 1

\* ------------------------------------------------------------------- C28
\* the last character read is a backslash that no escape consumed
LastIsEscape ==
  /\ scanRead # <<>>
  /\ scanRead[Len(scanRead)] = BS
  /\ ~ConsumedByEscape(scanRead, Len(scanRead))

\* C28: the scanner is in the Escaped sub-state exactly after a backslash
\* read inside a string, for the one character that follows it; a backslash
\* read outside a string does not make the scanner skip the next character.
C28_EscapedOnlyInsideString ==
  scanPc # "idle" =>
    (scan.escapeNext <=>
       (LastIsEscape /\ InsideString(scanRead, Len(scanRead) - 1)))

\* ------------------------------------------------------------------- C21
\* the positions, in order, of the quotes that no escape consumes
UnconsumedQuotes(read) ==
  SelectSeq([p \in 1..Len(read) |-> IF read[p] = DQ /\ ~ConsumedByEscape(read, p)
                                    THEN p ELSE 0],
            LAMBDA p : p > 0)

\* the texts of the quoted strings closed so far, in document order
ClosedStrings(read) ==
  LET q == UnconsumedQuotes(read)
  IN [k \in 1..(Len(q) \div 2) |-> SubSeq(read, q[2 * k - 1] + 1, q[2 * k] - 1)]

\* how many steps of the path the strings complete, each string compared with
\* the next expected step
RECURSIVE StepsCompleted(_, _, _)
StepsCompleted(strings, parts, done) ==
  IF strings = <<>> THEN done
  ELSE StepsCompleted(Tail(strings), parts,
         IF done < Len(parts) /\ Head(strings) = parts[done + 1]
         THEN done + 1 ELSE done)

PropertyPath == \A k \in 1..Len(ScanParts) : ~IsIndex(ScanParts[k])

\* C21: for a path of property names the path cursor of the scan is the
\* number of steps completed by the quoted strings closed so far, each
\* compared with the next expected step, whatever stands before a key; the
\* scan returns on the line where the last step is completed.
C21_CursorFollowsQuotedStrings ==
  (scanPc # "idle" /\ PropertyPath) =>
    LET completed == StepsCompleted(ClosedStrings(scanRead), ScanParts, 0)
    IN /\ scan.pathIndex = completed
       /\ completed = Len(ScanParts) =>
            (scan.ret = scanLineNum + 1 /\ lineNumber = scan.ret)

\* ------------------------------------------------------------------- C22
\* the path of the scan ends with an array index that exists in the document
IndexStepCase ==
  /\ PathExistsInDocument
  /\ IsIndex(ErrParts[Len(ErrParts)])

\* C22: a path whose last step is the index k of an array of the document is
\* resolved by the scan on the line where element k of that array opens,
\* whatever other arrays the document holds.
C22_IndexStepOnElementLine ==
  (scanPc = "returned" /\ IndexStepCase) =>
    (scan.ret = Target /\ lineNumber = Target)

\* ------------------------------------------------------------------- C23
\* the first step (1-based) of the path that does not resolve in the parsed
\* document: a property step needs an object holding the key, an index step
\* an array that long; 0 when every step resolves
RECURSIVE FailingStep(_, _, _)
FailingStep(current, parts, i) ==
  IF i > Len(parts) THEN 0
  ELSE IF current.t = "object" /\ HasMember(current, parts[i])
  THEN FailingStep(MemberOf(current, parts[i]).val, parts, i + 1)
  ELSE IF /\ current.t = "array"
          /\ IsIndex(parts[i])
          /\ parseInt(parts[i]) < Len(current.elems)
  THEN FailingStep(current.elems[parseInt(parts[i]) + 1], parts, i + 1)
  ELSE i

\* findLineNumberForPath was called on a readable file with a path of steps
PathCall ==
  /\ rpc = "walked"
  /\ file.readable
  /\ err.defined
  /\ Len(ErrParts) > 0

\* C23: when the document does not parse findLineNumberForPath returns the
\* text search for the whole path, and when the walk fails at step i, a
\* property name or an index, the text search for the steps from i on.
C23_TextSearchOnUnresolvedSuffix ==
  PathCall =>
    IF ~ParseOk(file.text)
    THEN pathLine = findLineNumberByTextSearch(Split(file.text, NL), ErrParts)
    ELSE LET i == FailingStep(JSONparse(file.text), ErrParts, 1)
         IN i > 0 =>
              pathLine = findLineNumberByTextSearch(Split(file.text, NL),
                           SubSeq(ErrParts, i, Len(ErrParts)))

\* ------------------------------------------------------------------- C24
\* C24: the walk of findLineNumberForPath succeeds exactly when every step of
\* the path resolves in the parsed document, a key made of digits included.
C24_WalkSucceedsIffPathExists ==
  (PathCall /\ ParseOk(file.text)) =>
    (WalkFrom(JSONparse(file.text), ErrParts, 1) = 0
       <=> FailingStep(JSONparse(file.text), ErrParts, 1) = 0)

\* ------------------------------------------------------------------- C25
\* the value the first n steps of the path address in the parsed document
RECURSIVE ValueAt(_, _, _)
ValueAt(current, parts, n) ==
  IF n = 0 THEN current
  ELSE LET parent == ValueAt(current, parts, n - 1)
       IN IF parent.t = "array" THEN parent.elems[parseInt(parts[n]) + 1]
          ELSE MemberOf(parent, parts[n]).val

\* the last step is the index k of the array of a property, and the elements
\* of the array up to k are objects, so that element k opens at the (k+1)-th
\* '{' inside the array
IndexOfPropertyCase ==
  /\ IndexStepCase
  /\ Len(ErrParts) > 1
  /\ ~IsIndex(ErrParts[Len(ErrParts) - 1])
  /\ LET array == ValueAt(JSONparse(file.text), ErrParts, Len(ErrParts) - 1)
     IN \A j \in 1..(parseInt(ErrParts[Len(ErrParts)]) + 1) :
          array.elems[j].t = "object"

\* C25: when the last step is the index k of a property's array, the searches
\* by text (findLineNumberByTextSearch, findArrayElementLine and the search
\* that ends findErrorLineNumber) return the line of the (k+1)-th '{' inside
\* that array, wherever the array opens.
C25_IndexSearchFindsElementLine ==
  (rpc = "walked" /\ IndexOfPropertyCase) =>
    LET lines == Split(file.text, NL)
        k == parseInt(ErrParts[Len(ErrParts)])
        parentProperty == ErrParts[Len(ErrParts) - 1]
    IN /\ findLineNumberByTextSearch(lines, ErrParts) = Target
       /\ findArrayElementLine(lines, parentProperty, k) = Target
       /\ ScanFallback(lines, ErrParts) = Target

\* ------------------------------------------------------------------- C26
\* the last step of the path is a property name
PropertyStepCase ==
  /\ PathCall
  /\ ~IsIndex(ErrParts[Len(ErrParts)])

\* the lines that hold the quoted last step followed by a colon
LastStepKeyLines ==
  {n \in 1..Len(Split(file.text, NL)) :
     MatchesKeyColon(Split(file.text, NL)[n], ErrParts[Len(ErrParts)])}

\* n is the first of those lines, or absent when there is none
FirstKeyColonLine(n) ==
  IF LastStepKeyLines = {} THEN n = null
  ELSE n \in LastStepKeyLines /\ \A m \in LastStepKeyLines : n <= m

\* the scan of findErrorLineNumber ended without a match
ScanEndedUnmatched ==
  ScanLines(ScanInit, Split(file.text, NL), 0, ErrParts).ret = null

\* C26: when the last step is a property name, the searches by text
\* (findLineNumberByTextSearch, findValueLineNumber and the search that ends
\* findErrorLineNumber) return the first line that holds the quoted name
\* followed by a colon, and absent when no line does.
C26_PropertySearchFindsKeyLine ==
  PropertyStepCase =>
    /\ FirstKeyColonLine(findLineNumberByTextSearch(Split(file.text, NL), ErrParts))
    /\ FirstKeyColonLine(findValueLineNumber(Split(file.text, NL), ErrParts))
    /\ ScanEndedUnmatched => FirstKeyColonLine(lineNumber)

\* ------------------------------------------------------------------- C29
\* setup ended with code 1 after a name was accepted: the only exit left is
\* the one of renameDomainDirectory, taken when the target directory exists
ExitedOnExistingTarget ==
  /\ setupPc = "exited"
  /\ setupExit = 1
  /\ domainName.defined

\* C29: when setup exits with an error because a directory named as the domain
\* already exists, no file content has been rewritten with the domain name.
C29_NoRewriteWhenTargetExists ==
  ExitedOnExistingTarget => ~replacedWith.defined

\* ---------------------------------------------------------------------------
\* The slot calculation of GetAvailableSlotsMapping: OutputHandler reads the
\* duration and calls CalculateAvailableSlots, which is stepped through its
\* two loops.  Times are minutes of the day.
\* ---------------------------------------------------------------------------

DefaultAppointmentDuration == 30

\* The longest working-hours list, the largest TimeSpan magnitude and the
\* number of slots the list can hold before the allocation fails.
MaxRanges == 2
TimeSpanLimit == 120
MaxSlots == 6

Times == {0, DefaultAppointmentDuration, 2 * DefaultAppointmentDuration}

Durations ==
  {NoDuration, [given |-> TRUE, numeric |-> FALSE, value |-> 0]}
    \cup {[given |-> TRUE, numeric |-> TRUE, value |-> v] :
            v \in {0 - DefaultAppointmentDuration, 0,
                   DefaultAppointmentDuration,
                   2 * DefaultAppointmentDuration}}

\* A working-hours entry: a start and an end, or an entry lacking one of them.
WorkingHoursEntries ==
  {[given |-> FALSE, start |-> 0, end |-> 0]}
    \cup {[given |-> TRUE, start |-> a, end |-> b] : a, b \in Times}

\* OutputHandler returns "no-working-hours" for an empty list, so the
\* calculation is called with at least one entry.
WorkingHoursLists ==
  UNION {[1..n -> WorkingHoursEntries] : n \in 1..MaxRanges}

\* GetUnavailableRanges: nothing, a full-day leave (from 00:00 to the end of
\* the day), or a leave over a part of the day.
UnavailableRangeLists ==
  {<<>>,
   <<[Start |-> 0, End |-> 3 * DefaultAppointmentDuration]>>,
   <<[Start |-> DefaultAppointmentDuration,
      End |-> 2 * DefaultAppointmentDuration]>>}

InitSlots ==
  /\ ResolverIdle
  /\ RunStart
  /\ SetupIdle
  /\ SyncIdle
  /\ tree = <<>>
  /\ durationStr \in Durations
  /\ workingHours \in WorkingHoursLists
  /\ unavailableRanges \in UnavailableRangeLists
  /\ durationMinutes = 0
  /\ whIndex = 1
  /\ currentTime = 0
  /\ slots = <<>>
  /\ slotsPc = "handler"

\* A TimeSpan sum outside the type's range throws OverflowException.
TimeSpanOverflows(t) == t > TimeSpanLimit \/ t < 0 - TimeSpanLimit

\* OutputHandler: the duration is the default when the parameter is absent
\* and int.Parse of it otherwise; a FormatException is caught by the
\* handler's catch.  No test of the value precedes the call.
OutputHandlerDuration ==
  /\ slotsPc = "handler"
  /\ IF durationStr.given /\ ~durationStr.numeric
       THEN /\ slotsPc' = "threw"
            /\ UNCHANGED durationMinutes
       ELSE /\ durationMinutes' =
                 (IF durationStr.given THEN durationStr.value
                                       ELSE DefaultAppointmentDuration)
            /\ slotsPc' = "foreach"
  /\ UNCHANGED <<durationStr, workingHours, unavailableRanges, whIndex,
                 currentTime, slots>>
  /\ UNCHANGED <<resolverVars, runVars, setupVars, syncVars>>

\* foreach (var wh in workingHours): entries without a start or an end and
\* entries with whStart == whEnd are skipped; the list's end returns slots.
ForEachWorkingHours ==
  /\ slotsPc = "foreach"
  /\ IF whIndex > Len(workingHours)
       THEN /\ slotsPc' = "returned"
            /\ UNCHANGED <<whIndex, currentTime>>
       ELSE LET wh == workingHours[whIndex] IN
            IF ~wh.given \/ wh.start = wh.end
              THEN /\ whIndex' = whIndex + 1
                   /\ UNCHANGED <<slotsPc, currentTime>>
              ELSE /\ currentTime' = wh.start
                   /\ slotsPc' = "while"
                   /\ UNCHANGED whIndex
  /\ UNCHANGED <<durationStr, workingHours, unavailableRanges,
                 durationMinutes, slots>>
  /\ UNCHANGED <<resolverVars, runVars, setupVars, syncVars>>

\* while (current + duration <= whEnd)
WhileSlotFits ==
  /\ slotsPc = "while"
  /\ IF TimeSpanOverflows(currentTime + durationMinutes)
       THEN /\ slotsPc' = "threw"
            /\ UNCHANGED whIndex
       ELSE IF currentTime + durationMinutes <= workingHours[whIndex].end
         THEN /\ slotsPc' = "slot"
              /\ UNCHANGED whIndex
         ELSE /\ slotsPc' = "foreach"
              /\ whIndex' = whIndex + 1
  /\ UNCHANGED <<durationStr, workingHours, unavailableRanges,
                 durationMinutes, currentTime, slots>>
  /\ UNCHANGED <<resolverVars, runVars, setupVars, syncVars>>

\* The overlap test of the loop body.
IsAvailable(slotStart, slotEnd) ==
  ~\E k \in 1..Len(unavailableRanges) :
     /\ slotStart < unavailableRanges[k].End
     /\ slotEnd > unavailableRanges[k].Start

\* The loop body up to slots.Add; a list that cannot grow throws.
AddSlotIfAvailable ==
  /\ slotsPc = "slot"
  /\ LET slotStart == currentTime
         slotEnd == currentTime + durationMinutes
     IN IF IsAvailable(slotStart, slotEnd)
          THEN IF Len(slots) >= MaxSlots
                 THEN /\ slotsPc' = "threw"
                      /\ UNCHANGED slots
                 ELSE /\ slots' = Append(slots, <<slotStart, slotEnd>>)
                      /\ slotsPc' = "advance"
          ELSE /\ slotsPc' = "advance"
               /\ UNCHANGED slots
  /\ UNCHANGED <<durationStr, workingHours, unavailableRanges,
                 durationMinutes, whIndex, currentTime>>
  /\ UNCHANGED <<resolverVars, runVars, setupVars, syncVars>>

\* current = current + duration;
AdvanceCurrent ==
  /\ slotsPc = "advance"
  /\ currentTime' = currentTime + durationMinutes
  /\ slotsPc' = "while"
  /\ UNCHANGED <<durationStr, workingHours, unavailableRanges,
                 durationMinutes, whIndex, slots>>
  /\ UNCHANGED <<resolverVars, runVars, setupVars, syncVars>>

NextSlots ==
  \/ OutputHandlerDuration
  \/ ForEachWorkingHours
  \/ WhileSlotFits
  \/ AddSlotIfAvailable
  \/ AdvanceCurrent

\* The handler runs on its own thread to its end: a step that can be taken is
\* taken.
SpecSlots == InitSlots /\ [][NextSlots]_vars /\ WF_vars(NextSlots)

\* C30: CalculateAvailableSlots terminates (returns, or ends by an exception)
\* for every list of working-hours ranges and every integer duration that
\* OutputHandler can pass to it, including 0 and negative values.
C30_CalculateAvailableSlotsTerminates ==
  <>(slotsPc \in {"returned", "threw"})

====
